---- MODULE Spec2Model ----
(***************************************************************************)
(* Voice-bot session orchestrator (src/components/VoiceChat.jsx), its      *)
(* control-channel event dispatcher (src/lib/webrtc/events.js), the WebRTC *)
(* helpers (lib/webrtc/connection) and the context retrieval endpoint      *)
(* (rag-context route), as one state machine.                              *)
(*                                                                         *)
(* React semantics used throughout: a state cell (isConnected, ...) holds  *)
(* the value last passed to its setter; `view` holds the values of the     *)
(* last committed render, which is what every closure created by that      *)
(* render sees (connect is re-created on every render, so                  *)
(* connectRef.current always closes over `view`).  A handler runs to its   *)
(* next await; promise continuations (microtasks) and the re-render that   *)
(* a state change schedules run before the next timer or network event.    *)
(***************************************************************************)
EXTENDS Integers, Sequences, FiniteSets, TLC

\* ---------------------------------------------------------------- bounds
MaxAttempts == 6          \* connect() invocations that pass the guard
MaxTransports == 3        \* the attempts after this one find the device or network down
MaxToggles == 1           \* changes of the enableAudio prop by the parent
MaxDisconnects == 1       \* disconnect() calls by the parent
MaxTurns == 2             \* final transcription events
MaxSpeech == 3            \* speech-start events
MaxReplyEvents == 3       \* reply transcript / reply-finished events
MaxEvents == 4            \* control-channel events of all three kinds together
MaxRequests == 2          \* requests the server process handles at the same time
MaxCalls == 3             \* calls of ensureCollectionOnce / getEmbedder
MaxWidth == 3             \* native width of an embedding handed to the padding
MaxComponent == 2         \* largest absolute value of an embedding component

\* ------------------------------------------------------ program constants
maxRetries == 5
baseRetryDelay == 2000
keyLen == 100                   \* characters of the trimmed query kept in a cache key
SIMILARITY_THRESHOLD == 25      \* 0.25, similarities counted in hundredths
targetDim == 1536               \* width of the vectors the collection stores

VARIABLES
  autoConnect, preConnect, enableAudio,          \* props
  isConnected, isConnecting, sessionId, error,   \* React state cells
  view,                                          \* values seen by the closures of the last render
  pcRef, streamRef, dataChannelRef,              \* refs (0 = null, else object id)
  hasGreetedRef, retryCountRef, retryTimeoutRef, iceServersRef,
  listeners,                                     \* pcs carrying handleConnectionStateChange
  pcs, dcs, liveStreams,                         \* browser objects
  calls,                                         \* connect() invocations
  timers, greetTasks,                            \* pending setTimeout callbacks
  nextId, nextSession, toggles, disconnects,     \* allocation / budget counters
  greetCount, updateCount, failStreak, schedLog, lastFire, \* history
  disc,                                          \* disconnect(): "idle" or awaiting saveConversation()
  currentUserMessageRef, currentAssistantMessageRef, conversationMessagesRef,
  prewarmCacheRef, prewarmAbortRef,
  prewarms, fetches,                             \* rag-context requests in flight
  fetchTimers,                                   \* armed 2000 ms timers of fetchAndSendContext, by turn
  ctxSent,                                       \* context messages sent on the control channel
  nextReq, turns, speeches, replyEvents,         \* allocation / budget counters
  lastEvt, ctxLog, saveCount, timedOut,          \* history
  messagesToShow,                                \* disconnect(): its copy of the exchange list
  lastSave,                                      \* history: how the save request of disconnect() ended
  retrieval,                                     \* server: the running retrieveChunksFromQdrant call
  cachedCollectionInfo,                          \* server (clients/qdrant.js): module variable
  collection,                                    \* the collection in the vector store
  ensure,                                        \* ensureCollectionOnce calls, by request
  storeLog,                                      \* history: store operations of ensureCollectionOnce
  embedder, isLoading, loadPromise,              \* server (clients/localEmbedding.js): module variables
  loads,                                         \* invocations of the model loader pipeline(...)
  embedCalls,                                    \* getEmbedder calls, by request
  embedLog,                                      \* history: number of getEmbedder calls
  dispatched,                                    \* events.js: the last call of handleDataChannelEvent
  trackEnabled,                                  \* enabled flag of the microphone track of each stream
  muted,                                         \* remoteAudioRef.current.muted
  padded,                                        \* server: the last call of padEmbeddingTo1536
  isRecording                                    \* React state cell

connVars == <<autoConnect, preConnect, enableAudio, isConnected, isConnecting,
              sessionId, error, view, pcRef, streamRef, dataChannelRef,
              hasGreetedRef, retryCountRef, retryTimeoutRef, iceServersRef,
              listeners, pcs, dcs, liveStreams, calls, timers, greetTasks,
              nextId, nextSession, toggles, disconnects,
              greetCount, updateCount, failStreak, schedLog, lastFire, disc>>

chatVars == <<currentUserMessageRef, currentAssistantMessageRef, conversationMessagesRef,
              prewarmCacheRef, prewarmAbortRef, prewarms, fetches, ctxSent,
              fetchTimers, nextReq, turns, speeches, replyEvents, lastEvt, ctxLog,
              saveCount, timedOut, messagesToShow, lastSave>>

\* what belongs to a running disconnect()
discVars == <<messagesToShow, lastSave>>

\* module state and calls of the server process
searchVars == <<retrieval>>
bootVars == <<cachedCollectionInfo, collection, ensure, storeLog>>
embedVars == <<embedder, isLoading, loadPromise, loads, embedCalls, embedLog>>
padVars == <<padded>>
serverVars == <<searchVars, bootVars, embedVars, padVars>>

\* calls of the event dispatcher
dispatchVars == <<dispatched>>
\* everything outside the component's connection and conversation state
\* flags of the audio objects
audioVars == <<trackEnabled, muted>>
\* activity flag of the component
flagVars == <<isRecording>>
libVars == <<serverVars, dispatchVars, audioVars, flagVars>>

vars == <<connVars, chatVars, libVars>>

Ids == 1..MaxAttempts

RECURSIVE Pow2(_)
Pow2(n) == IF n <= 0 THEN 1 ELSE 2 * Pow2(n - 1)

NoPc == [conn |-> "none", ice |-> "none"]
NewPc == [conn |-> "new", ice |-> "new"]
ClosedPc == [conn |-> "closed", ice |-> "closed"]
NoCall == [at |-> "none", sid |-> 0, ea |-> FALSE, why |-> "none"]

\* remove the i-th element of a sequence
RemoveAt(s, i) == SubSeq(s, 1, i - 1) \o SubSeq(s, i + 1, Len(s))

\* clearTimeout(retryTimeoutRef.current): drops the timer the ref points at
ClearCurrent(ts) == SelectSeq(ts, LAMBDA t : ~t.cur)
\* a newly scheduled timer becomes the one retryTimeoutRef points at
Orphaned(ts) == [i \in 1..Len(ts) |-> [ts[i] EXCEPT !.cur = FALSE]]

\* cleanupConnection(pc, localStream, dataChannel)
CleanupPcs(p) == IF p = 0 THEN pcs ELSE [pcs EXCEPT ![p] = ClosedPc]
CleanupDcs(d) == IF d = 0 THEN dcs ELSE [dcs EXCEPT ![d] = IF @ = "none" THEN @ ELSE "closed"]
CleanupStreams(p, s) == liveStreams \ {p, s}

\* a promise continuation of connect() is queued
MicrotaskPending == \E i \in Ids : calls[i].at \in {"resolved", "rejected"}
CurrentView == [mounted |-> TRUE, isConnected |-> isConnected, isConnecting |-> isConnecting,
                sessionId |-> sessionId, enableAudio |-> enableAudio]
RenderPending == view # CurrentView
Busy == MicrotaskPending \/ RenderPending

\* connect(): the duplicate-connection guard, evaluated in the closure of the last render
ConnectGuard(v, pc) == ~(v.isConnecting \/ v.isConnected \/ pc # 0)

\* ------------------------------------------------------------------ text
\* a text is a sequence of characters; "" is <<>>
RECURSIVE TrimStart(_)
TrimStart(s) == IF s # <<>> /\ Head(s) = " " THEN TrimStart(Tail(s)) ELSE s
RECURSIVE TrimEnd(_)
TrimEnd(s) == IF s # <<>> /\ s[Len(s)] = " " THEN TrimEnd(SubSeq(s, 1, Len(s) - 1)) ELSE s
\* String.prototype.trim
Trim(s) == TrimEnd(TrimStart(s))
\* String.prototype.slice(0, n)
Slice(s, n) == SubSeq(s, 1, IF Len(s) < n THEN Len(s) ELSE n)

\* the prewarm cache key `${sessionId || "anon"}::${category || "general"}::${trimmed.slice(0, 100)}`
\* (session 0 = "anon"; the parent passes category "general")
CacheKey(sid, question) == <<sid, "general", Slice(Trim(question), keyLen)>>

\* texts the speech recogniser delivers as final transcriptions
\* two questions with one cache key
Questions == {<<"a">>, <<" ", "a">>}
\* a question, a blank transcription, and another question
Phrases == {<<"a">>, <<" ">>, <<"b">>}
\* the full text of an assistant reply, streamed as one delta per character
ReplyText == <<"a", "b">>
\* similarity lists (hundredths, best first) the vector search returns for matchCount = 3
ResultLists == {<<>>, <<24>>, <<25, 10>>}

\* ------------------------------------------------ rag-context endpoint
\* buildContextBlock(chunks): one labelled source per chunk
buildContextBlock(chunks) == [n \in 1..Len(chunks) |-> <<n, chunks[n]>>]

\* how a retrieval on the server can end: "none" = the search ran; the
\* embedding could not be generated; the embedding has the wrong
\* dimensionality; the vector store cannot be reached
RetrievalFaults == {"embedding_failed", "wrong_dimension", "store_unreachable"}

\* retrieveChunksFromQdrant: the chunks (similarities, best first), or a throw
retrieveChunksFromQdrant(fault, chunks) ==
  IF fault = "embedding_failed" THEN [threw |-> TRUE, chunks |-> <<>>]
  ELSE IF fault = "wrong_dimension" THEN [threw |-> FALSE, chunks |-> <<>>]
  ELSE IF fault = "store_unreachable" THEN [threw |-> TRUE, chunks |-> <<>>]
  ELSE [threw |-> FALSE, chunks |-> chunks]

\* retrieveChunks without its catch block: the store's result whatever happened
retrieveChunksUnguarded(fault, chunks) == chunks

\* retrieveChunks: an empty list on any error
retrieveChunks(fault, chunks) ==
  LET res == retrieveChunksFromQdrant(fault, chunks)
  IN IF res.threw THEN <<>> ELSE res.chunks

\* the endpoint without its relevance gate
RagContextUngated(chunks) ==
  IF chunks # <<>>
    THEN [context |-> buildContextBlock(chunks), chunksFound |-> Len(chunks), reason |-> "none"]
    ELSE [context |-> <<>>, chunksFound |-> 0, reason |-> "none"]

\* POST /api/assistant/voice/rag-context for a retrieval result `chunks`
\* (context <<>> = null)
RagContext(chunks) ==
  IF chunks # <<>>
    THEN LET topSimilarity == chunks[1]
         IN IF topSimilarity < SIMILARITY_THRESHOLD
              THEN [context |-> <<>>, chunksFound |-> 0, reason |-> "below_threshold"]
              ELSE [context |-> buildContextBlock(chunks), chunksFound |-> Len(chunks), reason |-> "none"]
    ELSE [context |-> <<>>, chunksFound |-> 0, reason |-> "none"]

\* prewarmCacheRef.current.has(key) / .get(key) / .set(key, data)
CacheHas(key) == \E e \in prewarmCacheRef : e.key = key
CacheGet(key) == CHOOSE e \in prewarmCacheRef : e.key = key
CacheSet(key, data) == {e \in prewarmCacheRef : e.key # key} \cup {[key |-> key, data |-> data]}

\* ------------------------------------------------ handleDataChannelEvent
\* the hooks a caller can supply
Hooks == {"onSessionUpdate", "onSpeechStarted", "onSpeechStopped", "onTranscriptionCompleted",
          "onResponseStarted", "onResponseTranscript", "onResponseDone", "onError"}
\* sets of hooks supplied: all of them (as VoiceChat does), none, all but one
HandlerSets == {Hooks, {}, Hooks \ {"onResponseTranscript"}, Hooks \ {"onResponseStarted"}}

NoItem == [role |-> "none", type |-> "none", content |-> "none"]
\* event.item: its role, its type, and its content: absent, an array of
\* parts, or a string (empty or not)
Items == {NoItem} \cup [role : {"user", "assistant"}, type : {"message", "function_call"},
                         content : {"none", "parts", "empty", "string"}]
\* tags without a payload the dispatcher reads; "rate_limits.updated" is a
\* tag the switch does not name, "none" a message without a type field
PlainTags == {"session.created", "session.updated", "conversation.created",
              "input_audio_buffer.speech_started", "input_audio_buffer.speech_stopped",
              "input_audio_buffer.committed",
              "conversation.item.input_audio_transcription.completed",
              "response.created", "response.done", "response.completed",
              "conversation.item.output_audio.completed", "response.started", "error",
              "rate_limits.updated", "none"}
ItemTags == {"conversation.item.created", "response.output_item.added"}
TextTags == {"response.content_part.added", "response.audio_transcript.done",
             "response.audio_transcript.delta", "response.audio_transcript.completed"}
\* control messages: text is whether the transcript field read for the tag
\* (part.transcript || part.text || ..., transcript || delta || text) is
\* a non-empty string
ControlEvents ==
  [type : PlainTags, item : {NoItem}, text : {FALSE}]
    \cup [type : ItemTags, item : Items, text : {FALSE}]
    \cup [type : TextTags, item : {NoItem}, text : BOOLEAN]

\* if (handlers.onX) with every test passing
SuppliedAlways(handlers, hook) == TRUE

\* if (handlers.onX)
Supplied(handlers, hook) == hook \in handlers

\* handlers.onX(event) when supplied: the calls made
Invoke(handlers, hook) == IF Supplied(handlers, hook) THEN <<hook>> ELSE <<>>

AssistantMessage(item) == item.role = "assistant" /\ item.type = "message"

\* handleDataChannelEvent(event, handlers): the switch on event.type,
\* returning the hooks called, in order
handleDataChannelEvent(event, handlers) ==
  CASE event.type \in {"session.created", "session.updated"} ->
         Invoke(handlers, "onSessionUpdate")
    [] event.type = "conversation.created" -> <<>>
    [] event.type = "conversation.item.created" ->
         IF event.item.role = "user" /\ event.item.type = "message" THEN <<>>
         ELSE IF AssistantMessage(event.item) THEN Invoke(handlers, "onResponseStarted")
         ELSE <<>>
    [] event.type = "input_audio_buffer.speech_started" -> Invoke(handlers, "onSpeechStarted")
    [] event.type = "input_audio_buffer.speech_stopped" -> Invoke(handlers, "onSpeechStopped")
    [] event.type = "input_audio_buffer.committed" -> <<>>
    [] event.type = "conversation.item.input_audio_transcription.completed" ->
         Invoke(handlers, "onTranscriptionCompleted")
    [] event.type = "response.created" -> Invoke(handlers, "onResponseStarted")
    [] event.type = "response.output_item.added" ->
         IF event.item # NoItem /\ AssistantMessage(event.item) /\ event.item.content = "string"
           THEN Invoke(handlers, "onResponseTranscript")
           ELSE <<>>
    [] event.type = "response.content_part.added" ->
         IF event.text THEN Invoke(handlers, "onResponseTranscript") ELSE <<>>
    [] event.type \in {"response.audio_transcript.done", "response.audio_transcript.delta",
                       "response.audio_transcript.completed"} ->
         IF event.text THEN Invoke(handlers, "onResponseTranscript") ELSE <<>>
    [] event.type \in {"response.done", "response.completed",
                       "conversation.item.output_audio.completed"} ->
         Invoke(handlers, "onResponseDone")
    [] event.type = "response.started" -> Invoke(handlers, "onResponseStarted")
    [] event.type = "error" -> Invoke(handlers, "onError")
    [] OTHER -> <<>>

\* no call of the dispatcher yet
NoDispatch == [event |-> [type |-> "none", item |-> NoItem, text |-> FALSE],
               handlers |-> {}, invoked |-> <<>>]

\* ------------------------------------------------ retrieveChunksFromQdrant
\* errors client.search can throw, by the words the lowercased text of
\* `${message} ${data.status.error}` contains and by what went wrong: the
\* payload index of the filter field is missing (two wordings), the 500 ms
\* search timeout passed, the vector was rejected
SearchErrors ==
  { [cause |-> "no_index", words |-> {"index required", "index", "category"}],
    [cause |-> "no_index", words |-> {"index", "category"}],
    [cause |-> "timeout", words |-> {}],
    [cause |-> "bad_vector", words |-> {"vector"}],
    [cause |-> "bad_vector", words |-> {"vector", "index"}] }
NoError == [cause |-> "none", words |-> {}]

\* the catch of the filtered search retrying whatever the error says
NoIndexErrorAny(e) == TRUE

\* fullErrorText.includes('index required') ||
\* (fullErrorText.includes('index') && fullErrorText.includes('category'))
NoIndexError(e) ==
  "index required" \in e.words \/ ("index" \in e.words /\ "category" \in e.words)

\* limits the endpoint can pass as matchCount
MatchCounts == 1..3

\* searchResult.map(...): one chunk per point, its similarity the score
MapPoints(points) == [n \in 1..Len(points) |-> [similarity |-> points[n]]]

\* requests the server handles concurrently
Reqs == 1..MaxRequests
\* let cachedCollectionInfo = null
NoInfo == [name |-> "none", exists |-> FALSE, isNamedVector |-> FALSE]
\* a request that is not inside ensureCollectionOnce
NoEnsure == [at |-> "idle", ret |-> NoInfo]
\* what the store can hold under the collection name: nothing, a collection
\* with the named vector "content", one with a single unnamed vector (both
\* 1536 wide), or one with another vector size
CollectionKinds == {"named", "single", "narrow"}

\* invocations of the model loader; a loaded model carries the id of its load
LoadIds == 1..MaxCalls
\* a request that is not inside getEmbedder (on = the promise it awaits,
\* inst = the model it received)
NoEmbedCall == [at |-> "idle", on |-> 0, inst |-> 0]

\* no call of retrieveChunksFromQdrant has been made
NoRetrieval == [at |-> "idle", filter |-> FALSE, named |-> FALSE, limit |-> 0,
                searches |-> <<>>, got |-> <<>>, result |-> <<>>, err |-> NoError]

\* an embedding as the model returns it: a sequence of components
Embeddings ==
  UNION {[1..n -> -MaxComponent..MaxComponent] : n \in 0..MaxWidth}

\* a component of a returned vector: the number num / sqrt(den2); the
\* product val * invMagnitude is kept as this pair, so the square root is
\* never approximated
Plain(val) == [num |-> val, den2 |-> 1]
Scaled(val, sumSq) == [num |-> val, den2 |-> sumSq]

\* the loop  for (i < originalDim) sumSq += val * val, up to component k
RECURSIVE SumSqTo(_, _)
SumSqTo(embedding, k) ==
  IF k = 0 THEN 0 ELSE SumSqTo(embedding, k - 1) + embedding[k] * embedding[k]

sumSqFirst(embedding) == SumSqTo(embedding, IF Len(embedding) > 0 THEN 1 ELSE 0)
sumSq(embedding) == SumSqTo(embedding, Len(embedding))

\* padEmbeddingTo1536: a vector of the target width is returned as it is, a
\* wider one is cut, a narrower one is copied into a zero-filled array of
\* the target width and, when its magnitude is positive, its components are
\* overwritten by component * (1 / magnitude)
padEmbeddingTo1536(embedding) ==
  LET originalDim == Len(embedding)
      magnitude2 == sumSq(embedding)
  IN  IF originalDim = targetDim
        THEN [i \in 1..originalDim |-> Plain(embedding[i])]
      ELSE IF originalDim > targetDim
        THEN [i \in 1..targetDim |-> Plain(embedding[i])]
      ELSE [i \in 1..targetDim |->
              IF i > originalDim THEN Plain(0)
              ELSE IF magnitude2 > 0 THEN Scaled(embedding[i], magnitude2)
              ELSE Plain(embedding[i])]

\* padEmbeddingTo1536 has not been called
NoPadding == [done |-> FALSE, embedding |-> <<>>, result |-> <<>>]

\* the server process after start-up
ServerStarted ==
  /\ retrieval = NoRetrieval
  /\ cachedCollectionInfo = NoInfo /\ collection = "absent"
  /\ ensure = [r \in Reqs |-> NoEnsure]
  /\ storeLog = [checks |-> 0, createCalls |-> 0, created |-> 0, calls |-> 0]
  /\ embedder = 0 /\ isLoading = FALSE /\ loadPromise = 0
  /\ loads = [l \in LoadIds |-> "none"]
  /\ embedCalls = [r \in Reqs |-> NoEmbedCall]
  /\ embedLog = [calls |-> 0]
  /\ dispatched = NoDispatch
  /\ trackEnabled = [i \in Ids |-> FALSE] /\ muted = FALSE
  /\ padded = NoPadding
  /\ isRecording = FALSE

\* the component after construction, with the autoConnect prop as given
Mounted(ac) ==
  /\ autoConnect = ac /\ preConnect = TRUE
  /\ enableAudio \in BOOLEAN
  /\ isConnected = FALSE /\ isConnecting = FALSE /\ sessionId = 0 /\ error = "none"
  /\ view = [mounted |-> FALSE, isConnected |-> FALSE, isConnecting |-> FALSE,
             sessionId |-> 0, enableAudio |-> enableAudio]
  /\ pcRef = 0 /\ streamRef = 0 /\ dataChannelRef = 0
  /\ hasGreetedRef = FALSE /\ retryCountRef = 0 /\ retryTimeoutRef = 0 /\ iceServersRef = FALSE
  /\ listeners = {}
  /\ pcs = [i \in Ids |-> NoPc] /\ dcs = [i \in Ids |-> "none"] /\ liveStreams = {}
  /\ calls = [i \in Ids |-> NoCall]
  /\ timers = <<>> /\ greetTasks = <<>>
  /\ nextId = 1 /\ nextSession = 1 /\ toggles = 0 /\ disconnects = 0
  /\ greetCount = 0 /\ updateCount = 0 /\ failStreak = 0 /\ schedLog = <<>> /\ lastFire = "none"
  /\ disc = "idle"
  /\ currentUserMessageRef = <<>> /\ currentAssistantMessageRef = <<>>
  /\ conversationMessagesRef = <<>>
  /\ prewarmCacheRef = {} /\ prewarmAbortRef = 0
  /\ prewarms = {} /\ fetches = {} /\ fetchTimers = {} /\ ctxSent = {} /\ timedOut = {}
  /\ nextReq = 1 /\ turns = 0 /\ speeches = 0 /\ replyEvents = 0
  /\ lastEvt = [kind |-> "none", text |-> <<>>] /\ saveCount = 0
  /\ messagesToShow = <<>> /\ lastSave = "none"
  /\ ServerStarted
  /\ ctxLog = [via |-> "none", top |-> 0, chunksFound |-> 0, hasContext |-> FALSE,
               sent |-> FALSE, open |-> FALSE, fault |-> "none"]

\* the widget as its parent mounts it: autoConnect and preConnect are true
Init == Mounted(TRUE)

\* ------------------------------------------------------------ connect()
\* connect() past its guard: setIsConnecting(true), setError(null), then the
\* parallel ICE-server fetch and getUserMedia are awaited
StartCall(v) ==
  /\ nextId <= MaxAttempts
  /\ calls' = [calls EXCEPT ![nextId] = [at |-> "acquire", sid |-> v.sessionId, ea |-> v.enableAudio,
                                          why |-> "none"]]
  /\ nextId' = nextId + 1

\* the effect on [enableAudio, isConnected] of the render v: audio disabled
\* disables the live tracks of streamRef.current and, when connected, the
\* sender tracks of pcRef.current; audio enabled with a connected pcRef and
\* a stream enables them; no track is stopped or removed
MicEffect(v, flags) ==
  IF ~v.enableAudio
    THEN [i \in Ids |-> IF (i = streamRef /\ i \in liveStreams) \/ (i = pcRef /\ v.isConnected)
                          THEN FALSE ELSE flags[i]]
    ELSE IF v.isConnected /\ pcRef # 0 /\ streamRef # 0
           THEN [i \in Ids |-> IF (i = streamRef /\ i \in liveStreams) \/ i = pcRef
                                 THEN TRUE ELSE flags[i]]
           ELSE flags

\* a render commits: the closures now see v; the playback mute follows
\* enableAudio, the microphone effect runs when one of its dependencies
\* changed, and the auto-connect effect runs
RenderCommit(ea) ==
  LET v == [mounted |-> TRUE, isConnected |-> isConnected, isConnecting |-> isConnecting,
            sessionId |-> sessionId, enableAudio |-> ea]
      effect == (autoConnect \/ preConnect) /\ ~v.isConnected /\ ~v.isConnecting /\ pcRef = 0
  IN /\ view' = v
     /\ enableAudio' = ea
     /\ muted' = ~ea
     /\ trackEnabled' = IF ~view.mounted \/ v.enableAudio # view.enableAudio
                              \/ v.isConnected # view.isConnected
                           THEN MicEffect(v, trackEnabled) ELSE trackEnabled
     /\ IF effect /\ ConnectGuard(v, pcRef)
          THEN StartCall(v) /\ isConnecting' = TRUE /\ error' = "none"
          ELSE UNCHANGED <<calls, nextId, isConnecting, error>>
     /\ UNCHANGED <<autoConnect, preConnect, isConnected, sessionId, pcRef, streamRef,
                    dataChannelRef, hasGreetedRef, retryCountRef, retryTimeoutRef,
                    iceServersRef, listeners, pcs, dcs, liveStreams, timers, greetTasks,
                    nextSession, disconnects, greetCount, updateCount, failStreak,
                    schedLog, lastFire>>
     /\ UNCHANGED <<chatVars, disc, serverVars, dispatchVars, flagVars>>

Render == ~MicrotaskPending /\ RenderPending /\ RenderCommit(enableAudio) /\ UNCHANGED toggles

\* the parent changes the enableAudio prop (window opened / closed)
ToggleAudio ==
  /\ ~Busy /\ toggles < MaxToggles
  /\ toggles' = toggles + 1
  /\ RenderCommit(~enableAudio)

\* Promise.all([ICE servers, getUserMedia]) resolved and the ICE response is ok
\* (the new track is enabled unless the closure's enableAudio is false):
\* streamRef, pcRef and dataChannelRef are set, then createOffer is awaited
AcquireOk(i) ==
  /\ ~Busy /\ calls[i].at = "acquire"
  /\ i <= MaxTransports
  /\ iceServersRef' = TRUE
  /\ streamRef' = i /\ liveStreams' = liveStreams \cup {i}
  /\ pcRef' = i /\ pcs' = [pcs EXCEPT ![i] = NewPc]
  /\ dataChannelRef' = i /\ dcs' = [dcs EXCEPT ![i] = "connecting"]
  /\ calls' = [calls EXCEPT ![i].at = "negotiate"]
  /\ UNCHANGED <<autoConnect, preConnect, enableAudio, isConnected, isConnecting, sessionId,
                 error, view, hasGreetedRef, retryCountRef, retryTimeoutRef, listeners,
                 timers, greetTasks, nextId, nextSession, toggles, disconnects,
                 greetCount, updateCount, failStreak, schedLog, lastFire>>
  /\ trackEnabled' = [trackEnabled EXCEPT ![i] = calls[i].ea]
  /\ UNCHANGED <<chatVars, disc, serverVars, dispatchVars, flagVars, muted>>

\* the acquisition step throws: "mic" = getUserMedia rejected; "ice" = the
\* microphone was granted but the ICE-server request failed or was not ok
AcquireFail(i, cause) ==
  /\ ~Busy /\ calls[i].at = "acquire"
  /\ cause = "ice" => ~iceServersRef
  /\ liveStreams' = IF cause = "ice" THEN liveStreams \cup {i} ELSE liveStreams
  /\ calls' = [calls EXCEPT ![i].at = "rejected", ![i].why = cause]
  /\ UNCHANGED <<autoConnect, preConnect, enableAudio, isConnected, isConnecting, sessionId,
                 error, view, pcRef, streamRef, dataChannelRef, hasGreetedRef, retryCountRef,
                 retryTimeoutRef, iceServersRef, listeners, pcs, dcs, timers, greetTasks,
                 nextId, nextSession, toggles, disconnects, greetCount, updateCount,
                 failStreak, schedLog, lastFire>>
  /\ UNCHANGED <<chatVars, disc, libVars>>

\* createOffer, ICE gathering, the offer request and setRemoteDescription all
\* succeeded; the connection wait starts (checkConnection sees no decision yet)
NegotiateOk(i) ==
  /\ ~Busy /\ calls[i].at = "negotiate" /\ pcs[i].conn # "closed"
  /\ calls' = [calls EXCEPT ![i].at = "wait"]
  /\ UNCHANGED <<autoConnect, preConnect, enableAudio, isConnected, isConnecting, sessionId,
                 error, view, pcRef, streamRef, dataChannelRef, hasGreetedRef, retryCountRef,
                 retryTimeoutRef, iceServersRef, listeners, pcs, dcs, liveStreams, timers,
                 greetTasks, nextId, nextSession, toggles, disconnects, greetCount,
                 updateCount, failStreak, schedLog, lastFire>>
  /\ UNCHANGED <<chatVars, disc, libVars>>

\* a negotiation step throws (offer rejected, network error, closed transport)
NegotiateFail(i) ==
  /\ ~Busy /\ calls[i].at = "negotiate"
  /\ calls' = [calls EXCEPT ![i].at = "rejected", ![i].why = "negotiate"]
  /\ UNCHANGED <<autoConnect, preConnect, enableAudio, isConnected, isConnecting, sessionId,
                 error, view, pcRef, streamRef, dataChannelRef, hasGreetedRef, retryCountRef,
                 retryTimeoutRef, iceServersRef, listeners, pcs, dcs, liveStreams, timers,
                 greetTasks, nextId, nextSession, toggles, disconnects, greetCount,
                 updateCount, failStreak, schedLog, lastFire>>
  /\ UNCHANGED <<chatVars, disc, libVars>>

\* the 15 s connection timeout rejects the wait
WaitTimeout(i) ==
  /\ ~Busy /\ calls[i].at = "wait"
  /\ calls' = [calls EXCEPT ![i].at = "rejected", ![i].why = "timeout"]
  /\ UNCHANGED <<autoConnect, preConnect, enableAudio, isConnected, isConnecting, sessionId,
                 error, view, pcRef, streamRef, dataChannelRef, hasGreetedRef, retryCountRef,
                 retryTimeoutRef, iceServersRef, listeners, pcs, dcs, liveStreams, timers,
                 greetTasks, nextId, nextSession, toggles, disconnects, greetCount,
                 updateCount, failStreak, schedLog, lastFire>>
  /\ UNCHANGED <<chatVars, disc, libVars>>

\* ------------------------------------------------- connection-state events
\* state changes a transport can report on connectionState / iceConnectionState
PcTransitions == {<<"new", "connected">>, <<"new", "failed">>, <<"new", "disconnected">>,
                  <<"connected", "disconnected">>,
                  <<"disconnected", "connected">>, <<"disconnected", "failed">>}

\* scheduleRetry() without its autoConnect test
ScheduleRetryAlways ==
  IF retryCountRef >= maxRetries THEN <<timers, retryCountRef, retryTimeoutRef, "lost", schedLog>>
  ELSE LET delay == baseRetryDelay * Pow2(retryCountRef)
       IN <<Append(IF retryTimeoutRef # 0 THEN ClearCurrent(timers) ELSE timers,
                   [kind |-> "monitor", delay |-> delay, cur |-> TRUE]),
            retryCountRef + 1, 1, error, Append(schedLog, delay)>>

\* scheduleRetry(), as the new values of <<timers, retryCountRef, retryTimeoutRef, error, schedLog>>
ScheduleRetry ==
  IF ~autoConnect THEN <<timers, retryCountRef, retryTimeoutRef, error, schedLog>>
  ELSE IF retryCountRef >= maxRetries THEN <<timers, retryCountRef, retryTimeoutRef, "lost", schedLog>>
  ELSE LET delay == baseRetryDelay * Pow2(retryCountRef)
       IN <<Append(IF retryTimeoutRef # 0 THEN ClearCurrent(timers) ELSE timers,
                   [kind |-> "monitor", delay |-> delay, cur |-> TRUE]),
            retryCountRef + 1, 1, error, Append(schedLog, delay)>>

\* handleConnectionStateChange(), reading the transport's two states c and e
HandleConnectionStateChange(c, e) ==
  IF c = "disconnected" \/ e = "disconnected" \/ c = "failed" \/ e = "failed"
    THEN ScheduleRetry
  ELSE IF c = "connected" /\ e = "connected"
    THEN <<IF retryTimeoutRef # 0 THEN ClearCurrent(timers) ELSE timers, 0, 0, error, <<>> >>
  ELSE <<timers, retryCountRef, retryTimeoutRef, error, schedLog>>

\* checkConnection() rejecting on "disconnected" as well
CheckConnectionEager(c, e) ==
  IF c = "connected" \/ e = "connected" THEN "resolved"
  ELSE IF c \in {"failed", "disconnected"} \/ e \in {"failed", "disconnected"} THEN "rejected"
  ELSE "wait"

\* checkConnection() of the connection wait: the new position of the call
CheckConnection(c, e) ==
  IF c = "connected" \/ e = "connected" THEN "resolved"
  ELSE IF c = "failed" \/ e = "failed" THEN "rejected"
  ELSE "wait"

\* transport i reports a change of connectionState (f = "conn") or
\* iceConnectionState (f = "ice"); the registered listeners run
PcSignal(i, f, s) ==
  /\ ~Busy
  /\ calls[i].at \in {"wait", "done"}
  /\ pcs[i].conn \notin {"none", "closed"}
  /\ <<pcs[i][f], s>> \in PcTransitions
  /\ LET p == [pcs[i] EXCEPT ![f] = s]
         h == HandleConnectionStateChange(p.conn, p.ice)
     IN /\ pcs' = [pcs EXCEPT ![i] = p]
        /\ IF calls[i].at = "wait"
             THEN /\ calls' = [calls EXCEPT ![i].at = CheckConnection(p.conn, p.ice)]
                  /\ UNCHANGED <<timers, retryCountRef, retryTimeoutRef, error, schedLog>>
           ELSE IF i \in listeners
             THEN /\ timers' = h[1] /\ retryCountRef' = h[2] /\ retryTimeoutRef' = h[3]
                  /\ error' = h[4] /\ schedLog' = h[5]
                  /\ UNCHANGED calls
           ELSE UNCHANGED <<calls, timers, retryCountRef, retryTimeoutRef, error, schedLog>>
  /\ UNCHANGED <<autoConnect, preConnect, enableAudio, isConnected, isConnecting, sessionId,
                 view, pcRef, streamRef, dataChannelRef, hasGreetedRef, iceServersRef,
                 listeners, dcs, liveStreams, greetTasks, nextId, nextSession, toggles,
                 disconnects, greetCount, updateCount, failStreak, lastFire>>
  /\ UNCHANGED <<chatVars, disc, libVars>>

\* the control channel of a connected transport opens
DcOpen(i) ==
  /\ ~Busy /\ dcs[i] = "connecting"
  /\ pcs[i].conn = "connected" \/ pcs[i].ice = "connected"
  /\ dcs' = [dcs EXCEPT ![i] = "open"]
  /\ UNCHANGED <<autoConnect, preConnect, enableAudio, isConnected, isConnecting, sessionId,
                 error, view, pcRef, streamRef, dataChannelRef, hasGreetedRef, retryCountRef,
                 retryTimeoutRef, iceServersRef, listeners, pcs, liveStreams, calls, timers,
                 greetTasks, nextId, nextSession, toggles, disconnects, greetCount,
                 updateCount, failStreak, schedLog, lastFire>>
  /\ UNCHANGED <<chatVars, disc, libVars>>

\* ------------------------------------------------------------- greeting
ChannelOpen == dataChannelRef # 0 /\ dcs[dataChannelRef] = "open"

\* sendGreeting() in a closure that captured enableAudio = ea, with `rest` the
\* other pending greeting timers: new <<hasGreetedRef, greetTasks, updateCount>>
SendGreeting(ea, rest) ==
  IF ~hasGreetedRef /\ ChannelOpen /\ ea
    THEN <<TRUE, Append(rest, [kind |-> "trigger", ea |-> ea]), updateCount + 1>>
  ELSE IF dataChannelRef # 0 /\ dcs[dataChannelRef] # "open"
    THEN <<hasGreetedRef, Append(rest, [kind |-> "poll", ea |-> ea]), updateCount>>
  ELSE <<hasGreetedRef, rest, updateCount>>

\* a greeting timer fires: a retry of sendGreeting, or the 300 ms trigger send
GreetTask(k) ==
  /\ ~Busy /\ k \in 1..Len(greetTasks)
  /\ LET t == greetTasks[k]
         rest == RemoveAt(greetTasks, k)
         g == SendGreeting(t.ea, rest)
     IN IF t.kind = "poll"
          THEN /\ hasGreetedRef' = g[1] /\ greetTasks' = g[2] /\ updateCount' = g[3]
               /\ UNCHANGED greetCount
          ELSE /\ greetTasks' = rest
               /\ greetCount' = IF ChannelOpen THEN greetCount + 1 ELSE greetCount
               /\ UNCHANGED <<hasGreetedRef, updateCount>>
  /\ UNCHANGED <<autoConnect, preConnect, enableAudio, isConnected, isConnecting, sessionId,
                 error, view, pcRef, streamRef, dataChannelRef, retryCountRef, retryTimeoutRef,
                 iceServersRef, listeners, pcs, dcs, liveStreams, calls, timers, nextId,
                 nextSession, toggles, disconnects, failStreak, schedLog, lastFire>>
  /\ UNCHANGED <<chatVars, disc, libVars>>

\* ----------------------------------------------- connect(): continuations
\* the connection wait resolved: success path of connect()
ConnectTail(i) ==
  /\ calls[i].at = "resolved"
  /\ LET g == SendGreeting(calls[i].ea, greetTasks)
     IN /\ isConnected' = TRUE /\ isConnecting' = FALSE
        /\ retryCountRef' = 0
        /\ listeners' = listeners \cup {i}
        /\ IF calls[i].sid = 0
             THEN sessionId' = nextSession /\ nextSession' = nextSession + 1
             ELSE UNCHANGED <<sessionId, nextSession>>
        /\ IF ChannelOpen
             THEN hasGreetedRef' = g[1] /\ greetTasks' = g[2] /\ updateCount' = g[3]
             ELSE /\ greetTasks' = Append(greetTasks, [kind |-> "poll", ea |-> calls[i].ea])
                  /\ UNCHANGED <<hasGreetedRef, updateCount>>
        /\ calls' = [calls EXCEPT ![i].at = "done"]
        /\ failStreak' = 0 /\ schedLog' = <<>>
  /\ UNCHANGED <<autoConnect, preConnect, enableAudio, error, view, pcRef, streamRef,
                 dataChannelRef, retryTimeoutRef, iceServersRef, pcs, dcs, liveStreams,
                 timers, nextId, toggles, disconnects, greetCount, lastFire>>
  /\ UNCHANGED <<chatVars, disc, libVars>>

\* err.message of the exception connect() throws: getUserMedia errors are
\* rethrown with a message that names the microphone, every other failure
\* carries the message of its own step
ErrorMessage(why) == IF why = "mic" THEN "microphone" ELSE "connect"

\* an exception reached the catch block of connect()
ConnectCatch(i) ==
  /\ calls[i].at = "rejected"
  /\ error' = ErrorMessage(calls[i].why) /\ isConnecting' = FALSE /\ isConnected' = FALSE
  /\ IF pcRef # 0 \/ streamRef # 0
       THEN /\ pcs' = CleanupPcs(pcRef) /\ dcs' = CleanupDcs(dataChannelRef)
            /\ liveStreams' = CleanupStreams(pcRef, streamRef)
       ELSE UNCHANGED <<pcs, dcs, liveStreams>>
  /\ IF retryCountRef < maxRetries
       THEN LET delay == baseRetryDelay * Pow2((retryCountRef + 1) - 1)
            IN /\ retryCountRef' = retryCountRef + 1
               /\ timers' = Append(Orphaned(timers), [kind |-> "catch", delay |-> delay, cur |-> TRUE])
               /\ retryTimeoutRef' = 1
               /\ schedLog' = Append(schedLog, delay)
       ELSE /\ retryCountRef' = 0 /\ schedLog' = <<>>
            /\ UNCHANGED <<timers, retryTimeoutRef>>
  /\ calls' = [calls EXCEPT ![i].at = "failed", ![i].why = "none"]
  /\ failStreak' = failStreak + 1
  /\ UNCHANGED <<autoConnect, preConnect, enableAudio, sessionId, view, pcRef, streamRef,
                 dataChannelRef, hasGreetedRef, iceServersRef, listeners, greetTasks, nextId,
                 nextSession, toggles, disconnects, greetCount, updateCount, lastFire>>
  /\ UNCHANGED <<chatVars, disc, libVars>>

\* --------------------------------------------------------- retry timers
\* a retry timer fires.  "catch": the timer armed by the catch block of
\* connect() calls connectRef.current().  "monitor": the timer armed by
\* scheduleRetry() checks for self-healing, tears the transport down, sets
\* the Connecting state and calls connectRef.current().  Timers are kept in
\* the order they were armed, and a timer armed earlier with a delay that is
\* not longer is due earlier, so it fires first
TimerFire(k) ==
  /\ ~Busy /\ k \in 1..Len(timers)
  /\ \A j \in 1..(k - 1) : timers[j].delay > timers[k].delay
  /\ timers' = RemoveAt(timers, k)
  /\ LET t == timers[k] IN
     IF t.kind = "catch"
       THEN /\ IF ConnectGuard(view, pcRef)
                 THEN StartCall(view) /\ isConnecting' = TRUE /\ error' = "none"
                 ELSE UNCHANGED <<calls, nextId, isConnecting, error>>
            /\ UNCHANGED <<isConnected, pcRef, streamRef, dataChannelRef, retryCountRef,
                           pcs, dcs, liveStreams, lastFire, schedLog>>
     ELSE IF ~autoConnect
       THEN UNCHANGED <<calls, nextId, isConnecting, error, isConnected, pcRef, streamRef,
                        dataChannelRef, retryCountRef, pcs, dcs, liveStreams, lastFire, schedLog>>
     ELSE IF pcRef # 0 /\ pcs[pcRef].conn = "connected" /\ pcs[pcRef].ice = "connected"
       THEN /\ retryCountRef' = 0 /\ lastFire' = "healed" /\ schedLog' = <<>>
            /\ UNCHANGED <<calls, nextId, isConnecting, error, isConnected, pcRef, streamRef,
                           dataChannelRef, pcs, dcs, liveStreams>>
     ELSE /\ IF pcRef # 0
               THEN /\ pcs' = CleanupPcs(pcRef) /\ dcs' = CleanupDcs(dataChannelRef)
                    /\ liveStreams' = CleanupStreams(pcRef, streamRef)
                    /\ pcRef' = 0 /\ streamRef' = 0 /\ dataChannelRef' = 0
               ELSE UNCHANGED <<pcs, dcs, liveStreams, pcRef, streamRef, dataChannelRef>>
          /\ isConnected' = FALSE /\ isConnecting' = TRUE
          /\ IF ConnectGuard(view, 0)
               THEN StartCall(view) /\ error' = "none" /\ lastFire' = "started"
               ELSE UNCHANGED <<calls, nextId, error>> /\ lastFire' = "skipped"
          /\ UNCHANGED <<retryCountRef, schedLog>>
  /\ UNCHANGED <<autoConnect, preConnect, enableAudio, sessionId, view, hasGreetedRef,
                 retryTimeoutRef, iceServersRef, listeners, greetTasks, nextSession, toggles,
                 disconnects, greetCount, updateCount, failStreak>>
  /\ UNCHANGED <<chatVars, disc, libVars>>

\* ------------------------------------------------ control-channel events
\* the control channel of attempt i delivers its events to the callbacks that
\* attempt registered (closures of the render that invoked it)
Listening(i) == dcs[i] = "open" /\ calls[i].at = "done"

\* saveConversation(): the `exchanges` array of the request body, built by
\* the loop  for (i = 0; i < messages.length; i += 2)  from the entries i and
\* i + 1 (1-based here) when the first is a user and the second an assistant
\* exchange
RECURSIVE ExchangesFrom(_, _)
ExchangesFrom(messages, i) ==
  IF i > Len(messages) THEN <<>>
  ELSE (IF /\ messages[i].role = "user"
           /\ i + 1 <= Len(messages) /\ messages[i + 1].role = "assistant"
          THEN <<[question |-> messages[i].content, answer |-> messages[i + 1].content]>>
          ELSE <<>>) \o ExchangesFrom(messages, i + 2)

exchanges(messages) == ExchangesFrom(messages, 1)

\* saveConversation() in a closure that captured session sid: save requests issued so far
SaveConversation(sid, messages) == IF sid # 0 /\ messages # <<>> THEN saveCount + 1 ELSE saveCount

\* input_audio_buffer.speech_started -> onSpeechStarted ->
\* prewarmContext(currentUserMessageRef.current).  Aborting the previous
\* request rejects its fetch; its finally block runs as a microtask after the
\* new controller was stored and clears prewarmAbortRef
SpeechStarted(i) ==
  /\ ~Busy /\ Listening(i) /\ speeches < MaxSpeech /\ turns + speeches + replyEvents < MaxEvents
  /\ speeches' = speeches + 1
  /\ LET question == currentUserMessageRef
         key == CacheKey(calls[i].sid, question)
     IN IF Trim(question) = <<>> \/ ~ChannelOpen \/ CacheHas(key)
          THEN UNCHANGED <<prewarms, prewarmAbortRef, nextReq>>
          ELSE LET r == [id |-> nextReq, key |-> key, q |-> Trim(question)]
               IN /\ nextReq' = nextReq + 1
                  /\ IF prewarmAbortRef # 0
                       THEN /\ prewarms' = {x \in prewarms : x.id # prewarmAbortRef} \cup {r}
                            /\ prewarmAbortRef' = 0
                       ELSE /\ prewarms' = prewarms \cup {r}
                            /\ prewarmAbortRef' = r.id
  /\ UNCHANGED <<connVars, timedOut, currentUserMessageRef, currentAssistantMessageRef,
                 conversationMessagesRef, prewarmCacheRef, fetches, fetchTimers, ctxSent, turns,
                 replyEvents, lastEvt, ctxLog, saveCount>>
  /\ isRecording' = TRUE
  /\ UNCHANGED <<discVars, serverVars, dispatchVars, audioVars>>

\* input_audio_buffer.speech_stopped -> onSpeechStopped
SpeechStopped(i) ==
  /\ ~Busy /\ Listening(i)
  /\ isRecording' = FALSE
  /\ UNCHANGED <<connVars, chatVars, serverVars, dispatchVars, audioVars>>

\* a prewarm request is answered with the endpoint's result for `chunks`
PrewarmDeliver(r, chunks) ==
  /\ ~Busy /\ r \in prewarms
  /\ prewarms' = prewarms \ {r}
  /\ prewarmCacheRef' = CacheSet(r.key, RagContext(chunks))
  /\ prewarmAbortRef' = 0
  /\ UNCHANGED <<connVars, timedOut, currentUserMessageRef, currentAssistantMessageRef,
                 conversationMessagesRef, fetches, fetchTimers, ctxSent, nextReq, turns, speeches,
                 replyEvents, lastEvt, ctxLog, saveCount>>
  /\ UNCHANGED <<discVars, libVars>>

\* a prewarm request fails (network error or a response that is not ok)
PrewarmFail(r) ==
  /\ ~Busy /\ r \in prewarms
  /\ prewarms' = prewarms \ {r}
  /\ prewarmAbortRef' = 0
  /\ UNCHANGED <<connVars, timedOut, currentUserMessageRef, currentAssistantMessageRef,
                 conversationMessagesRef, prewarmCacheRef, fetches, fetchTimers, ctxSent, nextReq,
                 turns, speeches, replyEvents, lastEvt, ctxLog, saveCount>>
  /\ UNCHANGED <<discVars, libVars>>

\* what became of the retrieval result last handed to fetchAndSendContext,
\* for a result with top similarity `top`
LogEntry(via, top, data, sent, open, fault) ==
  [via |-> via, top |-> top, chunksFound |-> data.chunksFound,
   hasContext |-> data.context # <<>>, sent |-> sent, open |-> open, fault |-> fault]

\* fetchAndSendContext(question) up to its first await, for turn `id`.  Its
\* closure is the one of the first render (dependencies [category]), whose
\* sessionId is null.  A request in flight is kept with the control channel
\* that passed the readyState test before it was issued (dc)
FetchAndSendContext(id, question) ==
  IF ~ChannelOpen
    THEN UNCHANGED <<fetches, fetchTimers, ctxSent, ctxLog>>
  ELSE LET key == CacheKey(0, question)
           hit == CacheHas(key) /\ CacheGet(key).data.context # <<>>
       IN IF hit
            THEN LET prewarmed == CacheGet(key).data
                 IN /\ ctxSent' = ctxSent \cup {[id |-> id, dc |-> dataChannelRef, context |-> prewarmed.context]}
                    /\ ctxLog' = LogEntry("cache", prewarmed.context[1][2], prewarmed, TRUE, TRUE, "none")
                    /\ UNCHANGED <<fetches, fetchTimers>>
            ELSE /\ fetches' = fetches \cup {[id |-> id, q |-> Trim(question), dc |-> dataChannelRef]}
                 /\ fetchTimers' = fetchTimers \cup {id}
                 /\ UNCHANGED <<ctxSent, ctxLog>>

\* the acceptance test without the comparison against the current message
IsNewMessageAlways(text) == Trim(text) # <<>>

\* onTranscriptionCompleted: the text is non-blank and "a new message
\* (different from current)"
IsNewMessage(text) == Trim(text) # <<>> /\ currentUserMessageRef # text

\* conversation.item.input_audio_transcription.completed -> onTranscriptionCompleted
TranscriptionCompleted(i, text) ==
  /\ ~Busy /\ Listening(i) /\ turns < MaxTurns /\ turns + speeches + replyEvents < MaxEvents
  /\ turns' = turns + 1
  /\ lastEvt' = [kind |-> "final", text |-> text]
  /\ IF IsNewMessage(text)
       THEN /\ currentUserMessageRef' = text
            /\ conversationMessagesRef' = Append(conversationMessagesRef, [role |-> "user", content |-> text])
            /\ saveCount' = SaveConversation(calls[i].sid, conversationMessagesRef')
            /\ FetchAndSendContext(turns + 1, text)
       ELSE UNCHANGED <<currentUserMessageRef, conversationMessagesRef, saveCount, fetches,
                        fetchTimers, ctxSent, ctxLog>>
  /\ UNCHANGED <<connVars, timedOut, currentAssistantMessageRef, prewarmCacheRef, prewarmAbortRef,
                 prewarms, nextReq, speeches, replyEvents, discVars, libVars>>

\* clearTimeout(timeoutId) of the request of turn `id`, without the call
ClearTimeoutSkipped(id) == fetchTimers

\* clearTimeout(timeoutId) of the request of turn `id`
ClearTimeout(id) == fetchTimers \ {id}

\* the rag-context request of fetchAndSendContext is answered with status 200
\* before its 2000 ms timer fires: the timer is cleared and the body, the
\* endpoint's answer for a retrieval that ended as `fault` with the vector
\* search result `chunks`, is handled; send() throws when the channel is gone
\* or closed
FetchDeliver(r, fault, chunks) ==
  /\ ~Busy /\ r \in fetches
  /\ fetches' = fetches \ {r}
  /\ fetchTimers' = ClearTimeout(r.id)
  /\ LET found == retrieveChunks(fault, chunks)
         data == RagContext(found)
         open == ChannelOpen
         send == data.chunksFound > 0 /\ data.context # <<>>
     IN /\ ctxSent' = IF send /\ open
                        THEN ctxSent \cup {[id |-> r.id, dc |-> dataChannelRef, context |-> data.context]}
                        ELSE ctxSent
        /\ ctxLog' = LogEntry("net", IF found = <<>> THEN 0 ELSE found[1], data, send /\ open, open, fault)
  /\ UNCHANGED <<connVars, timedOut, currentUserMessageRef, currentAssistantMessageRef,
                 conversationMessagesRef, prewarmCacheRef, prewarmAbortRef, prewarms,
                 nextReq, turns, speeches, replyEvents, lastEvt, saveCount>>
  /\ UNCHANGED <<discVars, libVars>>

\* the answer of fetchAndSendContext to a request that brought no result
NoResult == [context |-> <<>>, chunksFound |-> 0, reason |-> "none"]

\* the rag-context request fails before its timer fires: fault "rejected" =
\* fetch rejects (network error), "http_error" = a response that is not ok
FetchFail(r, fault) ==
  /\ ~Busy /\ r \in fetches
  /\ fetches' = fetches \ {r}
  /\ fetchTimers' = ClearTimeout(r.id)
  /\ ctxLog' = LogEntry("fail", 0, NoResult, FALSE, ChannelOpen, fault)
  /\ UNCHANGED <<connVars, timedOut, currentUserMessageRef, currentAssistantMessageRef,
                 conversationMessagesRef, prewarmCacheRef, prewarmAbortRef, prewarms,
                 ctxSent, nextReq, turns, speeches, replyEvents, lastEvt, saveCount>>
  /\ UNCHANGED <<discVars, libVars>>

\* controller.abort() on the request of turn `id`, left in flight
AbortIgnored(id) == fetches

\* controller.abort() on the request of turn `id`: a request still in flight
\* rejects with AbortError, a settled one is not affected
Abort(id) == {x \in fetches : x.id # id}

\* the 2000 ms timer of the request of turn `id` fires: the request is
\* aborted and fetchAndSendContext returns from its catch block
FetchTimeout(id) ==
  /\ ~Busy /\ id \in fetchTimers
  /\ fetchTimers' = fetchTimers \ {id}
  /\ fetches' = Abort(id)
  /\ IF \E x \in fetches : x.id = id
       THEN /\ timedOut' = timedOut \cup {id}
            /\ ctxLog' = LogEntry("fail", 0, NoResult, FALSE, ChannelOpen, "timeout")
       ELSE UNCHANGED <<timedOut, ctxLog>>
  /\ UNCHANGED <<connVars, currentUserMessageRef, currentAssistantMessageRef,
                 conversationMessagesRef, prewarmCacheRef, prewarmAbortRef, prewarms,
                 ctxSent, nextReq, turns, speeches, replyEvents, lastEvt, saveCount>>
  /\ UNCHANGED <<discVars, libVars>>

\* onResponseTranscript for an event whose text is `text`; kind "delta" when
\* the event carries a delta field, "full" otherwise
ResponseTranscript(i, kind, text) ==
  /\ ~Busy /\ Listening(i) /\ replyEvents < MaxReplyEvents /\ turns + speeches + replyEvents < MaxEvents
  /\ replyEvents' = replyEvents + 1
  /\ lastEvt' = [kind |-> kind, text |-> text]
  /\ LET trimmedText == Trim(text)
         currentText == currentAssistantMessageRef
         newText == IF kind = "delta" THEN currentText \o trimmedText ELSE trimmedText
     IN currentAssistantMessageRef' =
          IF text # <<>> /\ trimmedText # <<>> /\ newText # currentText /\ Len(newText) > Len(currentText)
            THEN newText ELSE currentText
  /\ UNCHANGED <<connVars, timedOut, currentUserMessageRef, conversationMessagesRef, prewarmCacheRef,
                 prewarmAbortRef, prewarms, fetches, fetchTimers, ctxSent, nextReq, turns,
                 speeches, ctxLog, saveCount>>
  /\ UNCHANGED <<discVars, libVars>>

\* response.done / response.completed / conversation.item.output_audio.completed
\* -> onResponseDone
ResponseDone(i) ==
  /\ ~Busy /\ Listening(i) /\ replyEvents < MaxReplyEvents /\ turns + speeches + replyEvents < MaxEvents
  /\ replyEvents' = replyEvents + 1
  /\ lastEvt' = [kind |-> "done", text |-> <<>>]
  /\ LET assistantMsg == currentAssistantMessageRef
     IN IF Trim(assistantMsg) # <<>>
          THEN /\ conversationMessagesRef' =
                    Append(conversationMessagesRef, [role |-> "assistant", content |-> assistantMsg])
               /\ saveCount' = SaveConversation(calls[i].sid, conversationMessagesRef')
          ELSE UNCHANGED <<conversationMessagesRef, saveCount>>
  /\ UNCHANGED <<connVars, timedOut, currentUserMessageRef, currentAssistantMessageRef, prewarmCacheRef,
                 prewarmAbortRef, prewarms, fetches, fetchTimers, ctxSent, nextReq, turns,
                 speeches, ctxLog, discVars, libVars>>

\* ----------------------------------------------------------- disconnect()
\* disconnect() after its await of saveConversation(): teardown, then
\* onConversationEnd(messagesToShow, sessionId) if the copy taken before the
\* await is not empty (recorded as the last event, with the list handed
\* over), then the exchange list and the session id are reset
DisconnectRest(msgs) ==
  /\ IF pcRef # 0 \/ streamRef # 0
       THEN /\ pcs' = CleanupPcs(pcRef) /\ dcs' = CleanupDcs(dataChannelRef)
            /\ liveStreams' = CleanupStreams(pcRef, streamRef)
       ELSE UNCHANGED <<pcs, dcs, liveStreams>>
  /\ isConnected' = FALSE /\ isConnecting' = FALSE /\ error' = "none"
  /\ isRecording' = FALSE
  /\ pcRef' = 0 /\ streamRef' = 0 /\ dataChannelRef' = 0
  /\ currentUserMessageRef' = <<>> /\ currentAssistantMessageRef' = <<>>
  /\ lastEvt' = IF Len(msgs) > 0 THEN [kind |-> "ended", text |-> msgs]
                                 ELSE [kind |-> "none", text |-> <<>>]
  /\ messagesToShow' = <<>>
  /\ conversationMessagesRef' = <<>>
  /\ sessionId' = 0
  /\ greetCount' = 0

\* disconnect() up to its await: retry state cleared, listeners removed, the
\* exchange list copied into messagesToShow, then saveConversation() of the
\* last render; without a request to wait for, the rest follows in the same
\* turn
DisconnectBegin ==
  /\ ~Busy /\ view.mounted /\ disc = "idle" /\ disconnects < MaxDisconnects
  /\ disconnects' = disconnects + 1
  /\ timers' = IF retryTimeoutRef # 0 THEN ClearCurrent(timers) ELSE timers
  /\ retryTimeoutRef' = 0 /\ retryCountRef' = 0 /\ schedLog' = <<>>
  /\ listeners' = listeners \ {pcRef}
  /\ saveCount' = SaveConversation(view.sessionId, conversationMessagesRef)
  /\ lastSave' = "none"
  /\ IF saveCount' # saveCount
       THEN /\ disc' = "saving"
            /\ messagesToShow' = conversationMessagesRef
            /\ UNCHANGED <<pcs, dcs, liveStreams, isConnected, isConnecting, error, pcRef,
                           streamRef, dataChannelRef, currentUserMessageRef,
                           currentAssistantMessageRef, conversationMessagesRef, sessionId,
                           greetCount, lastEvt, isRecording>>
       ELSE disc' = "idle" /\ DisconnectRest(conversationMessagesRef)
  /\ failStreak' = 0
  /\ UNCHANGED <<autoConnect, preConnect, enableAudio, view, hasGreetedRef, iceServersRef,
                 calls, greetTasks, nextId, nextSession, toggles, updateCount,
                 lastFire, prewarmCacheRef, prewarmAbortRef, prewarms, fetches, fetchTimers,
                 timedOut, ctxSent,
                 nextReq, turns, speeches, replyEvents, ctxLog, serverVars, dispatchVars, audioVars>>

\* how the request of saveConversation() can end: a response that is ok, a
\* response that is not, or a fetch that rejects
SaveOutcomes == {"ok", "http_error", "rejected"}

\* saveConversation() without its try/catch: a rejected fetch reaches the caller
saveConversationUncaught(outcome) == IF outcome = "rejected" THEN "threw" ELSE "returned"

\* saveConversation() once its request has ended: a response that is not ok
\* makes it return, a rejection is caught ("this is a background operation")
saveConversation(outcome) == "returned"

\* the save request of disconnect() settles as `outcome` and disconnect()
\* continues after its await; had saveConversation() thrown, disconnect()
\* would end there
DisconnectEnd(outcome) ==
  /\ ~Busy /\ disc = "saving"
  /\ disc' = "idle"
  /\ lastSave' = outcome
  /\ IF saveConversation(outcome) = "returned"
       THEN DisconnectRest(messagesToShow)
       ELSE /\ messagesToShow' = <<>>
            /\ UNCHANGED <<pcs, dcs, liveStreams, isConnected, isConnecting, error, pcRef,
                           streamRef, dataChannelRef, currentUserMessageRef,
                           currentAssistantMessageRef, conversationMessagesRef, sessionId,
                           greetCount, lastEvt, isRecording>>
  /\ UNCHANGED <<autoConnect, preConnect, enableAudio, view, hasGreetedRef, retryCountRef,
                 retryTimeoutRef, iceServersRef, listeners, calls, timers, greetTasks, nextId,
                 nextSession, toggles, disconnects, updateCount, failStreak, schedLog,
                 lastFire, prewarmCacheRef, prewarmAbortRef, prewarms, fetches, fetchTimers,
                 timedOut, ctxSent,
                 nextReq, turns, speeches, replyEvents, ctxLog, saveCount, serverVars, dispatchVars,
                 audioVars>>

\* ------------------------------------------------------------------ Next
\* no attempt of connect() is between its invocation and its end
NoAttemptRunning == \A j \in Ids : calls[j].at \in {"none", "done", "failed"}

\* connection life cycle
Next ==
  \/ Render
  \/ ToggleAudio
  \/ \E i \in Ids : AcquireOk(i)
  \/ \E i \in Ids, cause \in {"mic", "ice"} : AcquireFail(i, cause)
  \/ \E i \in Ids : NegotiateOk(i)
  \/ \E i \in Ids : NegotiateFail(i)
  \/ \E i \in Ids : WaitTimeout(i)
  \/ \E i \in Ids, f \in {"conn", "ice"}, s \in {"connected", "disconnected", "failed"} : PcSignal(i, f, s)
  \/ \E i \in Ids : DcOpen(i)
  \/ \E i \in Ids : ConnectTail(i)
  \/ \E i \in Ids : ConnectCatch(i)
  \/ \E k \in 1..Len(timers) : TimerFire(k)
  \/ \E k \in 1..Len(greetTasks) : GreetTask(k)
  \/ NoAttemptRunning /\ DisconnectBegin

Spec == Init /\ [][Next]_vars

\* a session that connects without failures
Establish ==
  \/ Render
  \/ \E i \in Ids : AcquireOk(i)
  \/ \E i \in Ids : NegotiateOk(i)
  \/ \E i \in Ids, f \in {"conn", "ice"} : PcSignal(i, f, "connected")
  \/ \E i \in Ids : DcOpen(i)
  \/ \E i \in Ids : ConnectTail(i)
  \/ \E k \in 1..Len(greetTasks) : GreetTask(k)

\* the conversation starts once the connection steps have settled
Settled ==
  /\ greetTasks = <<>>
  /\ \A j \in Ids : calls[j].at = "done" => pcs[j].conn # "new" /\ pcs[j].ice # "new"

ChatInit == Init /\ enableAudio = TRUE

\* the first session: an attempt of connect() that starts after disconnect()
\* is left waiting for its microphone and ICE servers
FirstSession ==
  \/ Render
  \/ \E i \in Ids : disconnects = 0 /\ AcquireOk(i)
  \/ \E i \in Ids : NegotiateOk(i)
  \/ \E i \in Ids, f \in {"conn", "ice"} : PcSignal(i, f, "connected")
  \/ \E i \in Ids : DcOpen(i)
  \/ \E i \in Ids : ConnectTail(i)
  \/ \E k \in 1..Len(greetTasks) : GreetTask(k)

\* user turns and context retrieval
RetrievalNext ==
  \/ FirstSession
  \/ \E i \in Ids : Settled /\ SpeechStarted(i)
  \/ \E i \in Ids, text \in Questions : Settled /\ TranscriptionCompleted(i, text)
  \/ \E r \in prewarms, chunks \in ResultLists : PrewarmDeliver(r, chunks)
  \/ \E r \in prewarms : PrewarmFail(r)
  \/ \E r \in fetches, chunks \in ResultLists : FetchDeliver(r, "none", chunks)
  \/ \E r \in fetches : FetchFail(r, "rejected")
  \/ NoAttemptRunning /\ DisconnectBegin
  \/ DisconnectEnd("ok")

RetrievalSpec == ChatInit /\ [][RetrievalNext]_vars

\* user turns and assistant replies
ConversationNext ==
  \/ Establish
  \/ \E i \in Ids, text \in Phrases : Settled /\ TranscriptionCompleted(i, text)
  \/ \E i \in Ids, n \in 1..Len(ReplyText) : Settled /\ ResponseTranscript(i, "delta", <<ReplyText[n]>>)
  \/ \E i \in Ids : Settled /\ ResponseTranscript(i, "full", ReplyText)
  \/ \E i \in Ids : Settled /\ ResponseDone(i)
  \/ NoAttemptRunning /\ DisconnectBegin
  \/ DisconnectEnd("ok")

ConversationSpec == ChatInit /\ [][ConversationNext]_vars

\* sessions whose attempts fail at the acquisition step or connect, and whose
\* transports lose and regain their connection
HealNext ==
  \/ Render
  \/ \E i \in Ids : AcquireOk(i)
  \/ \E i \in Ids : AcquireFail(i, "mic")
  \/ \E i \in Ids : NegotiateOk(i)
  \/ \E i \in Ids, f \in {"conn", "ice"}, s \in {"connected", "disconnected", "failed"} : PcSignal(i, f, s)
  \/ \E i \in Ids : DcOpen(i)
  \/ \E i \in Ids : ConnectTail(i)
  \/ \E i \in Ids : ConnectCatch(i)
  \/ \E k \in 1..Len(timers) : TimerFire(k)
  \/ \E k \in 1..Len(greetTasks) : GreetTask(k)

\* a caller may pass autoConnect = false and keep preConnect
HealInit == \E ac \in BOOLEAN : Mounted(ac) /\ enableAudio = TRUE

HealSpec == HealInit /\ [][HealNext]_vars

\* the parent calls disconnect() at any moment of sessions that connect
\* without failures, also while an attempt of connect() is running
OverlapNext ==
  \/ Establish
  \/ DisconnectBegin

OverlapSpec == Init /\ [][OverlapNext]_vars

\* the chunks the vector store holds for the questions, had the search run
StoredChunks == <<25, 10>>

\* user turns whose context retrieval fails, times out or succeeds
DegradeNext ==
  \/ FirstSession
  \/ \E i \in Ids, text \in Questions : Settled /\ TranscriptionCompleted(i, text)
  \/ \E r \in fetches, chunks \in ResultLists : FetchDeliver(r, "none", chunks)
  \/ \E r \in fetches, fault \in RetrievalFaults : FetchDeliver(r, fault, StoredChunks)
  \/ \E r \in fetches, fault \in {"rejected", "http_error"} : FetchFail(r, fault)
  \/ \E id \in fetchTimers : FetchTimeout(id)
  \/ NoAttemptRunning /\ DisconnectBegin
  \/ DisconnectEnd("ok")

DegradeSpec == ChatInit /\ [][DegradeNext]_vars

\* user turns whose context retrieval is answered after the parent called
\* disconnect() and the widget connected again
ReplaceNext ==
  \/ Establish
  \/ \E i \in Ids : Settled /\ TranscriptionCompleted(i, <<"a">>)
  \/ \E r \in fetches : FetchDeliver(r, "none", StoredChunks)
  \/ NoAttemptRunning /\ DisconnectBegin
  \/ DisconnectEnd("ok")

ReplaceSpec == ChatInit /\ [][ReplaceNext]_vars

\* a session in which the user speaks and whose transport loses its
\* connection, so that the monitor's retry timer tears it down and reconnects
ActivityNext ==
  \/ Establish
  \/ \E i \in Ids : Settled /\ SpeechStarted(i)
  \/ \E i \in Ids : Settled /\ SpeechStopped(i)
  \/ \E i \in Ids, f \in {"conn", "ice"} : PcSignal(i, f, "disconnected")
  \/ \E k \in 1..Len(timers) : TimerFire(k)

ActivitySpec == ChatInit /\ [][ActivityNext]_vars

\* user turns of the first session and a disconnect() whose save request ends in any way
PersistNext ==
  \/ FirstSession
  \/ \E i \in Ids, text \in Phrases : Settled /\ TranscriptionCompleted(i, text)
  \/ NoAttemptRunning /\ DisconnectBegin
  \/ \E outcome \in SaveOutcomes : DisconnectEnd(outcome)

PersistSpec == ChatInit /\ [][PersistNext]_vars

\* -------------------------------------------- server: vector search
\* retrieveChunksFromQdrant({queryEmbedding, matchCount, category}) with a
\* valid embedding, up to its first client.search: filtered (timeout 500)
\* when a category is given, unfiltered (timeout 500) otherwise
RetrieveBegin(category, matchCount, isNamedVector) ==
  /\ retrieval.at \in {"idle", "returned", "threw"}
  /\ retrieval' = [at |-> "searching", filter |-> category, named |-> isNamedVector,
                   limit |-> matchCount,
                   searches |-> <<[filter |-> category, timeout |-> 500]>>,
                   got |-> <<>>, result |-> <<>>, err |-> NoError]
  /\ UNCHANGED <<connVars, chatVars, dispatchVars, audioVars, flagVars, padVars, bootVars, embedVars>>

\* the awaited client.search (the first or the retry) delivers `points`, of
\* which the store returns at most `limit`; the mapped chunks are returned
SearchReturns(points) ==
  /\ retrieval.at \in {"searching", "retrying"}
  /\ retrieval' = [retrieval EXCEPT !.at = "returned",
                                    !.got = Slice(points, retrieval.limit),
                                    !.result = MapPoints(Slice(points, retrieval.limit))]
  /\ UNCHANGED <<connVars, chatVars, dispatchVars, audioVars, flagVars, padVars, bootVars, embedVars>>

\* the first client.search throws e: the catch of the filtered search drops
\* the filter and searches once more, without a timeout, when the text names
\* a missing index; otherwise, and for an unfiltered search, e reaches the
\* outer catch, which logs it and throws it again
SearchFails(e) ==
  /\ retrieval.at = "searching"
  /\ IF retrieval.filter /\ NoIndexError(e)
       THEN retrieval' = [retrieval EXCEPT !.at = "retrying", !.filter = FALSE, !.err = e,
                            !.searches = Append(@, [filter |-> FALSE, timeout |-> 0])]
       ELSE retrieval' = [retrieval EXCEPT !.at = "threw", !.err = e]
  /\ UNCHANGED <<connVars, chatVars, dispatchVars, audioVars, flagVars, padVars, bootVars, embedVars>>

\* the unfiltered retry throws e, which reaches the outer catch
RetryFails(e) ==
  /\ retrieval.at = "retrying"
  /\ retrieval' = [retrieval EXCEPT !.at = "threw", !.err = e]
  /\ UNCHANGED <<connVars, chatVars, dispatchVars, audioVars, flagVars, padVars, bootVars, embedVars>>

\* calls of retrieveChunksFromQdrant, one after the other
SearchNext ==
  \/ \E category \in BOOLEAN, matchCount \in MatchCounts, isNamedVector \in BOOLEAN :
       RetrieveBegin(category, matchCount, isNamedVector)
  \/ \E points \in ResultLists : SearchReturns(points)
  \/ \E e \in SearchErrors : SearchFails(e)
  \/ \E e \in SearchErrors : RetryFails(e)

SearchSpec == Init /\ [][SearchNext]_vars

\* ------------------------------------------- server: ensureCollectionOnce
\* the collection is created from outside this process (document upload)
StoreProvisioned(kind) ==
  /\ collection = "absent"
  /\ collection' = kind
  /\ UNCHANGED <<connVars, chatVars, dispatchVars, audioVars, flagVars, padVars, searchVars, embedVars, cachedCollectionInfo, ensure, storeLog>>

\* ensureCollectionOnce() up to its first await: the cached descriptor is
\* returned when there is one, else client.getCollection(name) is awaited
EnsureBegin(r) ==
  /\ ensure[r].at \in {"idle", "returned", "threw"}
  /\ storeLog.calls < MaxCalls
  /\ IF cachedCollectionInfo # NoInfo
       THEN /\ ensure' = [ensure EXCEPT ![r] = [at |-> "returned", ret |-> cachedCollectionInfo]]
            /\ storeLog' = [storeLog EXCEPT !.calls = @ + 1]
       ELSE /\ ensure' = [ensure EXCEPT ![r] = [at |-> "checking", ret |-> NoInfo]]
            /\ storeLog' = [storeLog EXCEPT !.calls = @ + 1, !.checks = @ + 1]
  /\ UNCHANGED <<connVars, chatVars, dispatchVars, audioVars, flagVars, padVars, searchVars, embedVars, cachedCollectionInfo, collection>>

\* the descriptor built from a collection of the given kind
Descriptor(kind, existed) ==
  [name |-> "document_chunks", exists |-> existed, isNamedVector |-> kind = "named"]

\* getCollection(name).catch(() => null) settles: with the collection's
\* info, or with null when the store has none or the request failed (ok is
\* false).  Info of a wrong vector size throws; other info is cached and
\* returned; null leads to client.createCollection(name, ...), awaited
CheckSettles(r, ok) ==
  /\ ensure[r].at = "checking"
  /\ IF ok /\ collection # "absent"
       THEN IF collection = "narrow"
              THEN /\ ensure' = [ensure EXCEPT ![r].at = "threw"]
                   /\ UNCHANGED <<cachedCollectionInfo, storeLog>>
              ELSE /\ cachedCollectionInfo' = Descriptor(collection, TRUE)
                   /\ ensure' = [ensure EXCEPT ![r] = [at |-> "returned",
                                                        ret |-> cachedCollectionInfo']]
                   /\ UNCHANGED storeLog
       ELSE /\ ensure' = [ensure EXCEPT ![r].at = "creating"]
            /\ storeLog' = [storeLog EXCEPT !.createCalls = @ + 1]
            /\ UNCHANGED cachedCollectionInfo
  /\ UNCHANGED <<connVars, chatVars, dispatchVars, audioVars, flagVars, padVars, searchVars, embedVars, collection>>

\* createCollection settles: the store creates the collection when it has
\* none, and answers 409 "already exists" when it has one; the request can
\* also fail otherwise (ok is false), which is thrown.  Both other ways
\* lead to a second getCollection(name), awaited
CreateSettles(r, ok) ==
  /\ ensure[r].at = "creating"
  /\ IF ~ok
       THEN /\ ensure' = [ensure EXCEPT ![r].at = "threw"]
            /\ UNCHANGED <<collection, storeLog>>
       ELSE IF collection = "absent"
              THEN /\ collection' = "named"
                   /\ storeLog' = [storeLog EXCEPT !.created = @ + 1]
                   /\ ensure' = [ensure EXCEPT ![r].at = "created"]
              ELSE /\ ensure' = [ensure EXCEPT ![r].at = "conflict"]
                   /\ UNCHANGED <<collection, storeLog>>
  /\ UNCHANGED <<connVars, chatVars, dispatchVars, audioVars, flagVars, padVars, searchVars, embedVars, cachedCollectionInfo>>

\* the second getCollection settles: its info is cached and returned (after
\* a creation as a named-vector collection that did not exist, after a 409
\* as the existing one with the vector type the info shows); a failure is
\* thrown
InfoSettles(r, ok) ==
  /\ ensure[r].at \in {"created", "conflict"}
  /\ IF ~ok
       THEN /\ ensure' = [ensure EXCEPT ![r].at = "threw"]
            /\ UNCHANGED cachedCollectionInfo
       ELSE /\ cachedCollectionInfo' =
                 IF ensure[r].at = "created" THEN Descriptor("named", FALSE)
                                             ELSE Descriptor(collection, TRUE)
            /\ ensure' = [ensure EXCEPT ![r] = [at |-> "returned", ret |-> cachedCollectionInfo']]
  /\ UNCHANGED <<connVars, chatVars, dispatchVars, audioVars, flagVars, padVars, searchVars, embedVars, collection, storeLog>>

\* overlapping requests calling ensureCollectionOnce
BootNext ==
  \/ \E kind \in CollectionKinds : StoreProvisioned(kind)
  \/ \E r \in Reqs : EnsureBegin(r)
  \/ \E r \in Reqs, ok \in BOOLEAN : CheckSettles(r, ok)
  \/ \E r \in Reqs, ok \in BOOLEAN : CreateSettles(r, ok)
  \/ \E r \in Reqs, ok \in BOOLEAN : InfoSettles(r, ok)

BootSpec == Init /\ [][BootNext]_vars

\* --------------------------------------------------- server: getEmbedder
\* getEmbedder without the isLoading test
MustWaitNever(loading) == FALSE

\* if (isLoading) return loadPromise
MustWait(loading) == loading

\* getEmbedder(): the loaded model when there is one; the promise of the
\* running load when one is running; else isLoading is set and the loader
\* pipeline(...) is invoked, its promise kept in loadPromise and returned
GetEmbedder(r) ==
  /\ embedCalls[r].at \in {"idle", "got", "threw"}
  /\ embedLog.calls < MaxCalls
  /\ embedLog' = [calls |-> embedLog.calls + 1]
  /\ IF embedder # 0
       THEN /\ embedCalls' = [embedCalls EXCEPT ![r] = [at |-> "got", on |-> 0, inst |-> embedder]]
            /\ UNCHANGED <<isLoading, loadPromise, loads>>
       ELSE IF MustWait(isLoading)
              THEN /\ embedCalls' = [embedCalls EXCEPT ![r] =
                                       [at |-> "waiting", on |-> loadPromise, inst |-> 0]]
                   /\ UNCHANGED <<isLoading, loadPromise, loads>>
              ELSE \E l \in LoadIds :
                     /\ loads[l] = "none" /\ \A k \in LoadIds : k < l => loads[k] # "none"
                     /\ isLoading' = TRUE
                     /\ loads' = [loads EXCEPT ![l] = "pending"]
                     /\ loadPromise' = l
                     /\ embedCalls' = [embedCalls EXCEPT ![r] =
                                         [at |-> "waiting", on |-> l, inst |-> 0]]
  /\ UNCHANGED <<connVars, chatVars, dispatchVars, audioVars, flagVars, padVars, searchVars, bootVars, embedder>>

\* the loader of load l settles: on success embedder is the model and
\* isLoading is cleared; on failure isLoading, embedder and loadPromise are
\* reset and the error thrown.  Every caller awaiting the promise of l
\* continues with the model or the error
LoadSettles(l, ok) ==
  /\ loads[l] = "pending"
  /\ loads' = [loads EXCEPT ![l] = IF ok THEN "ok" ELSE "failed"]
  /\ isLoading' = FALSE
  /\ embedder' = IF ok THEN l ELSE 0
  /\ loadPromise' = IF ok THEN loadPromise ELSE 0
  /\ embedCalls' = [r \in Reqs |->
                     IF embedCalls[r].at = "waiting" /\ embedCalls[r].on = l
                       THEN [at |-> IF ok THEN "got" ELSE "threw", on |-> l,
                             inst |-> IF ok THEN l ELSE 0]
                       ELSE embedCalls[r]]
  /\ UNCHANGED <<connVars, chatVars, dispatchVars, audioVars, flagVars, padVars, searchVars, bootVars, embedLog>>

\* overlapping requests calling getEmbedder
EmbedNext ==
  \/ \E r \in Reqs : GetEmbedder(r)
  \/ \E l \in LoadIds, ok \in BOOLEAN : LoadSettles(l, ok)

EmbedSpec == Init /\ [][EmbedNext]_vars

\* ------------------------------------------------------ embedding padding
\* generateLocalEmbedding hands the model's vector to padEmbeddingTo1536;
\* the function keeps no state between calls, so one call is followed
PadEmbedding(embedding) ==
  /\ ~padded.done
  /\ padded' = [done |-> TRUE, embedding |-> embedding,
                result |-> padEmbeddingTo1536(embedding)]
  /\ UNCHANGED <<connVars, chatVars, dispatchVars, audioVars, flagVars, searchVars, bootVars, embedVars>>

PadNext == \E embedding \in Embeddings : PadEmbedding(embedding)

PadSpec == Init /\ [][PadNext]_vars

\* -------------------------------------------------- event dispatcher
\* a control message arrives and is handed to the dispatcher with the
\* caller's hooks
Dispatch(event, handlers) ==
  /\ dispatched' = [event |-> event, handlers |-> handlers,
                    invoked |-> handleDataChannelEvent(event, handlers)]
  /\ UNCHANGED <<connVars, chatVars, serverVars, audioVars, flagVars>>

DispatchNext == \E event \in ControlEvents, handlers \in HandlerSets : Dispatch(event, handlers)

DispatchSpec == Init /\ [][DispatchNext]_vars

\* attempts of connect() that reach the connection wait, which a signal of
\* the transport or the 15 s timer ends; failed attempts are retried
WaitNext ==
  \/ Render
  \/ \E i \in Ids : AcquireOk(i)
  \/ \E i \in Ids : NegotiateOk(i)
  \/ \E i \in Ids, f \in {"conn", "ice"}, s \in {"connected", "disconnected", "failed"} : PcSignal(i, f, s)
  \/ \E i \in Ids : WaitTimeout(i)
  \/ \E i \in Ids : ConnectTail(i)
  \/ \E i \in Ids : ConnectCatch(i)
  \/ \E k \in 1..Len(timers) : TimerFire(k)

\* the event loop runs every queued continuation and render, and an armed
\* 15 s timer fires once the loop is free
WaitFairness ==
  /\ WF_vars(Render)
  /\ \A i \in Ids : WF_vars(ConnectTail(i)) /\ WF_vars(ConnectCatch(i)) /\ SF_vars(WaitTimeout(i))

WaitSpec == ChatInit /\ [][WaitNext]_vars /\ WaitFairness

\* ---------------------------------------------------------------- claims
\* a step of the running session that is not part of disconnect()
SessionStep == disc' = disc /\ disconnects' = disconnects
AppendedBy(role) ==
  /\ Len(conversationMessagesRef') = Len(conversationMessagesRef) + 1
  /\ conversationMessagesRef'[Len(conversationMessagesRef')].role = role
FinalArrived == turns' = turns + 1
ReplyEventArrived == replyEvents' = replyEvents + 1

\* C1: the relevance gate is a strict threshold.  Whatever retrieval result
\* fetchAndSendContext last obtained (from the endpoint or from the prewarm
\* cache): with the control channel open, a context message was sent if and
\* only if the top similarity is >= 0.25; a context message is never sent for
\* a top similarity below 0.25, for which the endpoint answers context = null
\* and chunksFound = 0; and every context message on the channel carries a
\* context whose first source has similarity >= 0.25.
Inv_C1 ==
  /\ ctxLog.via # "none" =>
       /\ ctxLog.open => (ctxLog.sent <=> ctxLog.top >= SIMILARITY_THRESHOLD)
       /\ ctxLog.sent => ctxLog.top >= SIMILARITY_THRESHOLD /\ ctxLog.open
       /\ ctxLog.top < SIMILARITY_THRESHOLD =>
            ~ctxLog.hasContext /\ ctxLog.chunksFound = 0 /\ ~ctxLog.sent
  /\ \A m \in ctxSent : m.context # <<>> /\ m.context[1][2] >= SIMILARITY_THRESHOLD

\* a result exactly at the threshold arrived from the endpoint and its
\* context was sent on the open control channel
Witness_C1 ==
  /\ ctxLog.via = "net" /\ ctxLog.top = SIMILARITY_THRESHOLD /\ ctxLog.sent
  /\ \E m \in ctxSent : m.dc = dataChannelRef /\ m.context[1][2] = SIMILARITY_THRESHOLD

\* an attempt of connect() is between invocation and its success or catch
InFlight(i) == calls[i].at \in {"acquire", "negotiate", "wait", "resolved", "rejected"}

\* C2: the greeting trigger is sent exactly once per session: never twice,
\* and once the session stands (connected with audio enabled since it was
\* invoked, control channel open, no greeting timer pending) the trigger has
\* been sent - in the first session and in every session after a disconnect().
Orig_C2 ==
  /\ greetCount <= 1
  /\ (/\ isConnected /\ ~Busy /\ ChannelOpen /\ greetTasks = <<>>
      /\ enableAudio /\ calls[dataChannelRef].at = "done" /\ calls[dataChannelRef].ea)
       => greetCount = 1

\* C3: retry k is scheduled with delay 2000 * 2^(k-1) ms, and once 5
\* consecutive attempts have failed no further attempt is started and no
\* further retry is scheduled, by any path.
Orig_C3 ==
  [][/\ \A k \in 1..Len(schedLog') : schedLog'[k] = baseRetryDelay * Pow2(k - 1)
     /\ failStreak >= maxRetries => nextId' = nextId /\ Len(timers') <= Len(timers)]_vars

\* a transport reports trouble on one of its two states
Unhealthy(p) == p.conn \in {"disconnected", "failed"} \/ p.ice \in {"disconnected", "failed"}

\* C4: the retry counter advances by exactly one per failed connection,
\* however many connection-state / ICE-state events report that failure (a
\* further event of a transport already known to be unhealthy leaves the
\* counter alone), the delays run 2000, 4000, 8000, and a successful connect()
\* finds the counter reset to zero.
Orig_C4 ==
  [][/\ \A i \in Ids :
          (Unhealthy(pcs[i]) /\ Unhealthy(pcs'[i]) /\ pcs'[i] # pcs[i])
            => retryCountRef' = retryCountRef
     /\ \A k \in 1..Len(schedLog') : schedLog'[k] = baseRetryDelay * Pow2(k - 1)
     /\ \A i \in Ids : (calls[i].at = "resolved" /\ calls'[i].at = "done") => retryCountRef' = 0]_vars

\* C5: after a health failure the retry performs a new connection attempt, so
\* the orchestrator is never in the Connecting state without an attempt of
\* connect() running.
Orig_C5 == (isConnecting /\ ~Busy) => \E i \in Ids : InFlight(i)

\* C6: when the catch block of connect() has run for attempt i, the
\* orchestrator is neither connecting nor connected, the audio source and the
\* transport of attempt i are released, exactly one retry was scheduled if the
\* counter was below the ceiling, and otherwise none was and the error is set.
Orig_C6 ==
  [][\A i \in Ids : (calls[i].at = "rejected" /\ calls'[i].at = "failed") =>
       /\ ~isConnecting' /\ ~isConnected'
       /\ i \notin liveStreams' /\ pcs'[i].conn \in {"none", "closed"}
       /\ retryCountRef < maxRetries => Len(timers') = Len(timers) + 1
       /\ retryCountRef >= maxRetries => timers' = timers /\ error' # "none"]_vars

\* C7: on every transcript event of a reply the accumulated assistant text
\* does not get shorter, a partial delivered twice in a row leaves it as the
\* first delivery left it, and a full transcript leaves it equal to that text.
Orig_C7 ==
  [][(SessionStep /\ ReplyEventArrived /\ lastEvt'.kind \in {"delta", "full"}) =>
       /\ Len(currentAssistantMessageRef') >= Len(currentAssistantMessageRef)
       /\ (lastEvt'.kind = "delta" /\ lastEvt = lastEvt') =>
            currentAssistantMessageRef' = currentAssistantMessageRef
       /\ lastEvt'.kind = "full" => currentAssistantMessageRef' = Trim(lastEvt'.text)]_vars

\* C8 as stated: during a session the exchange list only grows at its end, a
\* user exchange is appended exactly when a final transcription with
\* non-empty (non-blank) text arrives, an assistant exchange only when a
\* reply-finished event fires, and partial transcript events leave the list alone.
Orig_C8 ==
  [][SessionStep =>
       /\ \/ conversationMessagesRef' = conversationMessagesRef
          \/ /\ Len(conversationMessagesRef') = Len(conversationMessagesRef) + 1
             /\ SubSeq(conversationMessagesRef', 1, Len(conversationMessagesRef)) = conversationMessagesRef
       /\ AppendedBy("user") <=> (FinalArrived /\ Trim(lastEvt'.text) # <<>>)
       /\ AppendedBy("assistant") => ReplyEventArrived /\ lastEvt'.kind = "done"
       /\ ReplyEventArrived /\ lastEvt'.kind \in {"delta", "full"} =>
            conversationMessagesRef' = conversationMessagesRef]_vars

\* C8 (amended): as above, but a user exchange is appended exactly when a
\* final transcription arrives whose text is non-blank and differs from the
\* text of the last accepted transcription of the session; the appended
\* exchange carries that text.
Thm_C8 ==
  [][SessionStep =>
       /\ \/ conversationMessagesRef' = conversationMessagesRef
          \/ /\ Len(conversationMessagesRef') = Len(conversationMessagesRef) + 1
             /\ SubSeq(conversationMessagesRef', 1, Len(conversationMessagesRef)) = conversationMessagesRef
       /\ AppendedBy("user") <=>
            (FinalArrived /\ Trim(lastEvt'.text) # <<>> /\ lastEvt'.text # currentUserMessageRef)
       /\ AppendedBy("user") =>
            conversationMessagesRef'[Len(conversationMessagesRef')].content = lastEvt'.text
       /\ AppendedBy("assistant") => ReplyEventArrived /\ lastEvt'.kind = "done"
       /\ ReplyEventArrived /\ lastEvt'.kind \in {"delta", "full"} =>
            conversationMessagesRef' = conversationMessagesRef]_vars

\* two final transcriptions arrived, one was not appended, and the reply's
\* exchange follows the user's
Witness_C8 ==
  /\ turns = 2 /\ disconnects = 0
  /\ Len(conversationMessagesRef) = 2
  /\ conversationMessagesRef[1].role = "user" /\ conversationMessagesRef[2].role = "assistant"
  /\ lastEvt.kind = "done"

\* C9: when fetchAndSendContext runs for an accepted final transcription whose
\* key is already in the prewarm cache of the session, it issues no request
\* to the retrieval endpoint, whether the cached result carries context or not.
Orig_C9 ==
  [][(SessionStep /\ FinalArrived /\ AppendedBy("user") /\ ChannelOpen
        /\ CacheHas(CacheKey(calls[dataChannelRef].sid, lastEvt'.text)))
       => fetches' = fetches]_vars

\* C10: at most one prewarm request that was not cancelled is outstanding.
Orig_C10 == Cardinality(prewarms) <= 1

\* a retrieval request of fetchAndSendContext is settled by this step
RequestSettled == fetches' \subseteq fetches /\ fetches' # fetches

\* C11: whenever a retrieval request ends in a failure (the embedding fails,
\* the embedding has the wrong dimensionality, the vector store is
\* unreachable, the endpoint answers with an error status, the fetch rejects
\* or is aborted), no context message is sent and the session is unaffected:
\* connection state, control channel, session id, user-visible error and
\* exchange list stay as they are.
Thm_C11 ==
  [][(RequestSettled /\ ctxLog'.fault # "none") =>
       /\ ctxSent' = ctxSent /\ ~ctxLog'.sent
       /\ connVars' = connVars
       /\ conversationMessagesRef' = conversationMessagesRef
       /\ currentUserMessageRef' = currentUserMessageRef]_vars

\* in a connected session that already received a context message, a later
\* retrieval found the vector store unreachable
Witness_C11 ==
  /\ ctxLog.fault = "store_unreachable" /\ ctxLog.open
  /\ isConnected /\ ChannelOpen /\ error = "none"
  /\ \E m \in ctxSent : m.dc = dataChannelRef
  /\ Len(conversationMessagesRef) = 2

\* C12: a request whose 2000 ms timer fired is cancelled and no context
\* message is ever sent for its utterance; a timer stays armed only while its
\* request is in flight, so a response that arrives first leaves nothing to abort.
Inv_C12 ==
  /\ \A m \in ctxSent : m.id \notin timedOut
  /\ \A id \in timedOut : ~\E x \in fetches : x.id = id
  /\ \A id \in fetchTimers : \E x \in fetches : x.id = id

\* the first utterance timed out, the second one was answered in time and
\* its context was sent
Witness_C12 ==
  /\ timedOut = {1} /\ fetches = {} /\ fetchTimers = {}
  /\ \E m \in ctxSent : m.id = 2
  /\ ctxLog.via = "net" /\ ctxLog.sent

\* a step of disconnect()
DisconnectStep == disconnects' # disconnects \/ disc' # disc
\* the success path of connect() runs for some attempt
ConnectSucceeds == \E i \in Ids : calls[i].at = "resolved" /\ calls'[i].at = "done"

\* C13: a session identifier is generated only by a successful connect(),
\* and once generated it changes only through disconnect(): not by failures,
\* scheduled retries or further successful attempts.
Orig_C13 ==
  [][/\ (sessionId = 0 /\ sessionId' # 0) => ConnectSucceeds
     /\ (sessionId # 0 /\ sessionId' # sessionId) => DisconnectStep]_vars

\* C14: outside disconnect(), the retry counter goes back to zero only in a
\* step that leaves the current transport fully connected (connection state
\* and ICE state both "connected").
Orig_C14 ==
  [][(retryCountRef # 0 /\ retryCountRef' = 0 /\ ~DisconnectStep) =>
       /\ pcRef' # 0
       /\ pcs'[pcRef'].conn = "connected" /\ pcs'[pcRef'].ice = "connected"]_vars

\* both states of a transport report "connected"
FullyConnected(p) == p.conn = "connected" /\ p.ice = "connected"
\* a retry timer fires in this step
TimerFired ==
  /\ Len(timers') = Len(timers) - 1 /\ disconnects' = disconnects
  /\ \A i \in Ids : pcs'[i] \in {pcs[i], ClosedPc}

\* C15: a retry timer that fires while the live session reports both states
\* "connected" tears nothing down and starts no attempt (transport, audio
\* source, control channel and connection state stay as they are), and a
\* signal that leaves the monitored transport fully connected cancels the
\* pending retry: no retry timer remains armed.
Orig_C15 ==
  [][/\ (TimerFired /\ pcRef # 0 /\ FullyConnected(pcs[pcRef])) =>
          /\ pcs' = pcs /\ dcs' = dcs /\ liveStreams' = liveStreams
          /\ pcRef' = pcRef /\ streamRef' = streamRef /\ dataChannelRef' = dataChannelRef
          /\ calls' = calls /\ nextId' = nextId
          /\ isConnected' = isConnected /\ isConnecting' = isConnecting
     /\ (\E i \in listeners : pcs'[i] # pcs[i] /\ FullyConnected(pcs'[i])) =>
          timers' = <<>>]_vars

\* transport i, monitored by handleConnectionStateChange, reports
\* "disconnected" or "failed" on one of its states in this step
UnhealthySignal(i) ==
  /\ i \in listeners /\ pcs'[i] # pcs[i]
  /\ \/ pcs'[i].conn # pcs[i].conn /\ pcs'[i].conn \in {"disconnected", "failed"}
     \/ pcs'[i].ice # pcs[i].ice /\ pcs'[i].ice \in {"disconnected", "failed"}

MicFailureCaught(i) ==
  calls[i].at = "rejected" /\ calls[i].why = "mic" /\ calls'[i].at = "failed"

\* C17: when microphone acquisition fails the attempt fails and the error
\* names the microphone, no retry timer is armed for it, and while that error
\* stands no further attempt starts unless the caller acts (a prop change or
\* disconnect()).
Orig_C17 ==
  [][/\ \A i \in Ids : MicFailureCaught(i) =>
          /\ error' = "microphone" /\ ~isConnecting' /\ ~isConnected'
          /\ timers' = timers /\ nextId' = nextId
     /\ (error = "microphone" /\ nextId' # nextId) =>
          (toggles' # toggles \/ DisconnectStep)]_vars

\* C18: the user-visible error becomes set only in a step taken with the retry
\* counter at its ceiling, and an attempt that fails below the ceiling (one
\* that is going to be retried) leaves the error unset.
Orig_C18 ==
  [][/\ (error' # "none" /\ error' # error) => retryCountRef >= maxRetries
     /\ \A i \in Ids :
          (calls[i].at = "rejected" /\ calls'[i].at = "failed" /\ retryCountRef < maxRetries)
            => error' = "none"]_vars

\* disconnect() runs to its end in this step
DisconnectCompletes ==
  \/ disconnects' # disconnects /\ disc' = "idle"
  \/ disc = "saving" /\ disc' = "idle"

\* C19: when disconnect() has completed, no transport, audio source or
\* control channel is held, no retry timer is pending, the retry counter is 0,
\* the session id and the exchange list are cleared, and the prewarm cache,
\* the prewarm abort handle and the in-flight prewarm requests are gone.
Orig_C19 ==
  [][DisconnectCompletes =>
       /\ pcRef' = 0 /\ streamRef' = 0 /\ dataChannelRef' = 0
       /\ timers' = <<>> /\ retryCountRef' = 0
       /\ sessionId' = 0 /\ conversationMessagesRef' = <<>>
       /\ prewarmCacheRef' = {} /\ prewarmAbortRef' = 0 /\ prewarms' = {}]_vars

\* C20: disconnect() submits the exchange list to the save endpoint while the
\* transport is still up, and when it completes onConversationEnd was called
\* exactly if an exchange exists, and both the list it was handed and the
\* list that was flushed (the exchange list as it stood when messagesToShow
\* was copied) hold every exchange appended up to then.
Orig_C20 ==
  [][/\ (disconnects' # disconnects /\ conversationMessagesRef # <<>>) =>
          saveCount' = saveCount + 1
     /\ (disconnects' # disconnects /\ saveCount' # saveCount) => pcs' = pcs
     /\ DisconnectCompletes =>
          /\ (lastEvt'.kind = "ended") <=> (conversationMessagesRef # <<>>)
          /\ lastEvt'.kind = "ended" => lastEvt'.text = conversationMessagesRef
          /\ disc = "saving" => messagesToShow = conversationMessagesRef]_vars

\* C21: every exchange appended during a live session issues a save request
\* in the same step (the request goes out with the session id of the closure
\* and the exchange list as it stands, including the new exchange).
Orig_C21 ==
  [][(SessionStep /\ (AppendedBy("user") \/ AppendedBy("assistant")))
       => saveCount' = saveCount + 1]_vars

AnsweredFromCache == FinalArrived /\ ctxSent' # ctxSent /\ ctxLog'.via = "cache"

\* C23: a prewarm cache entry answers at most one full retrieval: the entry
\* that answered the arriving transcription is gone from the cache afterwards.
Orig_C23 ==
  [][AnsweredFromCache => ~\E e \in prewarmCacheRef' : e.key = CacheKey(0, lastEvt'.text)]_vars

\* C24: a filtered search failing for a missing index of the filter field is
\* followed by exactly one unfiltered search, whose result is what the call
\* returns; a filtered search failing for another reason, and a failing
\* retry, end the call with that error and no further search
Thm_C24 ==
  [][/\ (retrieval.at = "searching" /\ retrieval'.at \in {"retrying", "threw"}
           /\ retrieval.filter /\ retrieval'.err.cause = "no_index")
          => /\ retrieval'.at = "retrying" /\ ~retrieval'.filter
             /\ retrieval'.searches = Append(retrieval.searches, [filter |-> FALSE, timeout |-> 0])
     /\ (retrieval.at = "searching" /\ retrieval'.at \in {"retrying", "threw"}
           /\ retrieval.filter /\ retrieval'.err.cause # "no_index")
          => retrieval'.at = "threw" /\ retrieval'.searches = retrieval.searches
     /\ (retrieval.at = "retrying" /\ retrieval'.at # "retrying")
          => /\ retrieval'.searches = retrieval.searches
             /\ Len(retrieval.searches) = 2
             /\ retrieval.searches[1].filter /\ ~retrieval.searches[2].filter
             /\ retrieval'.at \in {"returned", "threw"}
             /\ retrieval'.at = "returned" => retrieval'.result = MapPoints(retrieval'.got)
             /\ retrieval'.at = "threw" => retrieval'.err.cause # "none"
     /\ (retrieval.at = "threw" /\ retrieval'.at = "threw") => retrieval' = retrieval]_vars
Witness_C24 ==
  /\ retrieval.at = "returned" /\ Len(retrieval.searches) = 2
  /\ retrieval.err.cause = "no_index" /\ Len(retrieval.result) = 2

\* C25: for any interleaving of calls the existence of the collection is
\* checked at most once, the collection is created if and only if it is
\* absent and at most once, every caller that returns holds a descriptor of
\* the collection in the store, and a call made after a success does not
\* touch the store
EnsureReturns(r) == ensure[r].at # "returned" /\ ensure'[r].at = "returned"
ValidDescriptor(d) ==
  /\ d.name = "document_chunks"
  /\ collection' \in {"named", "single"}
  /\ d.isNamedVector = (collection' = "named")
Orig_C25 ==
  [][/\ storeLog'.checks <= 1
     /\ storeLog'.created <= 1
     /\ storeLog'.createCalls # storeLog.createCalls => collection = "absent"
     /\ \A r \in Reqs : EnsureReturns(r) => ValidDescriptor(ensure'[r].ret)
     /\ (cachedCollectionInfo # NoInfo /\ storeLog'.calls # storeLog.calls)
          => (storeLog'.checks = storeLog.checks /\ storeLog'.createCalls = storeLog.createCalls)]_vars

\* C26: the model loader is invoked only when no load is running or has
\* succeeded; every caller that receives a model receives the one instance;
\* a failed load gives every caller waiting for it the error, and the next
\* call starts a new load
LoaderInvoked == \E l \in LoadIds : loads[l] = "none" /\ loads'[l] = "pending"
Thm_C26 ==
  [][/\ LoaderInvoked => \A k \in LoadIds : loads[k] \notin {"pending", "ok"}
     /\ \A r \in Reqs : embedCalls'[r].at = "got"
          => (embedCalls'[r].inst # 0 /\ embedCalls'[r].inst = embedder')
     /\ \A l \in LoadIds : (loads[l] = "pending" /\ loads'[l] = "failed")
          => \A r \in Reqs : (embedCalls[r].at = "waiting" /\ embedCalls[r].on = l)
                               => embedCalls'[r].at = "threw"
     /\ \A r \in Reqs : embedCalls[r].at = "waiting" => loads[embedCalls[r].on] = "pending"
     /\ (embedLog'.calls # embedLog.calls /\ \A k \in LoadIds : loads[k] \in {"none", "failed"})
          => LoaderInvoked]_vars
\* both requests waited for the second load, after the first had failed
Witness_C26 ==
  /\ loads[1] = "failed" /\ loads[2] = "ok"
  /\ \A r \in Reqs : embedCalls[r].at = "got" /\ embedCalls[r].on = 2

\* C27: every call of the dispatcher invokes at most one hook, and nothing
\* for a tag it does not know or a hook that is not supplied; as claimed,
\* two messages with the same tag, item role and item type, handed over
\* with the same hooks, invoke the same hook
TagKey(d) == <<d.event.type, d.event.item.role, d.event.item.type, d.handlers>>
KnownTags == (PlainTags \cup ItemTags \cup TextTags) \ {"rate_limits.updated", "none"}
AtMostOneHook(d) ==
  /\ Len(d.invoked) <= 1
  /\ \A n \in 1..Len(d.invoked) : d.invoked[n] \in d.handlers
  /\ d.event.type \notin KnownTags => d.invoked = <<>>
Orig_C27 ==
  [][/\ AtMostOneHook(dispatched')
     /\ TagKey(dispatched') = TagKey(dispatched) => dispatched'.invoked = dispatched.invoked]_vars

\* C27 as amended: the hook is the one of the tag; for the events that carry
\* reply text it is invoked only when the text is a non-empty string
HookOfTag(tag) ==
  CASE tag \in {"session.created", "session.updated"} -> "onSessionUpdate"
    [] tag = "input_audio_buffer.speech_started" -> "onSpeechStarted"
    [] tag = "input_audio_buffer.speech_stopped" -> "onSpeechStopped"
    [] tag = "conversation.item.input_audio_transcription.completed" -> "onTranscriptionCompleted"
    [] tag \in {"response.created", "response.started", "conversation.item.created"} ->
         "onResponseStarted"
    [] tag \in TextTags \cup {"response.output_item.added"} -> "onResponseTranscript"
    [] tag \in {"response.done", "response.completed",
                "conversation.item.output_audio.completed"} -> "onResponseDone"
    [] tag = "error" -> "onError"
    [] OTHER -> "none"
\* the event carries what its hook is for
Carries(e) ==
  CASE e.type = "conversation.item.created" -> AssistantMessage(e.item)
    [] e.type = "response.output_item.added" -> AssistantMessage(e.item) /\ e.item.content = "string"
    [] e.type \in TextTags -> e.text
    [] OTHER -> TRUE
Thm_C27 ==
  [][/\ AtMostOneHook(dispatched')
     /\ dispatched'.invoked # <<>> <=>
          /\ HookOfTag(dispatched'.event.type) \in dispatched'.handlers
          /\ Carries(dispatched'.event)
     /\ dispatched'.invoked # <<>> => dispatched'.invoked[1] = HookOfTag(dispatched'.event.type)
     /\ (dispatched'.event = dispatched.event /\ dispatched'.handlers = dispatched.handlers)
          => dispatched'.invoked = dispatched.invoked]_vars
\* a transcript event without text was dispatched with all hooks supplied
Witness_C27 ==
  /\ dispatched.event.type = "response.audio_transcript.delta" /\ ~dispatched.event.text
  /\ dispatched.handlers = Hooks /\ dispatched.invoked = <<>>

\* C28: a change of enableAudio leaves the transport, the control channel,
\* the connection state, the session id, the retry counter and the exchange
\* list as they are and stops no track; it sets the playback mute, and with
\* a connected session the enabled flag of the held microphone track
AudioToggled == toggles' # toggles
Orig_C28 ==
  [][AudioToggled =>
       /\ enableAudio' = ~enableAudio /\ muted' = ~enableAudio'
       /\ pcs' = pcs /\ dcs' = dcs /\ liveStreams' = liveStreams
       /\ pcRef' = pcRef /\ streamRef' = streamRef /\ dataChannelRef' = dataChannelRef
       /\ isConnected' = isConnected /\ isConnecting' = isConnecting
       /\ sessionId' = sessionId /\ retryCountRef' = retryCountRef
       /\ conversationMessagesRef' = conversationMessagesRef
       /\ nextId' = nextId /\ timers' = timers /\ ctxSent' = ctxSent
       /\ (isConnected /\ streamRef # 0 /\ streamRef \in liveStreams)
            => trackEnabled'[streamRef] = enableAudio'
       /\ \A i \in Ids : i \notin {streamRef, pcRef} => trackEnabled'[i] = trackEnabled[i]]_vars

\* C29: at any time at most one attempt of connect() is in progress and at
\* most one transport and one audio source are held; connect() invoked
\* while the component is connecting or connected starts no attempt
OpenTransports == {i \in Ids : pcs[i] \notin {NoPc, ClosedPc}}
Orig_C29 ==
  /\ [](/\ Cardinality({i \in Ids : InFlight(i)}) <= 1
        /\ Cardinality(OpenTransports) <= 1
        /\ Cardinality(liveStreams) <= 1)
  /\ [][nextId' # nextId => (~isConnecting /\ ~isConnected)]_vars

\* C30: the connection wait of every attempt ends, and ends once: resolved
\* by the first signal that leaves a state "connected", rejected by a signal
\* "failed", rejected by the 15 s timer; a signal "disconnected" leaves it
\* waiting; once ended, the outcome stays
Signalled(i) == pcs'[i] # pcs[i]
Reports(i, s) == Signalled(i) /\ (pcs'[i].conn = s \/ pcs'[i].ice = s)
WaitStep(i) ==
  /\ (calls[i].at = "wait" /\ Reports(i, "connected")) => calls'[i].at = "resolved"
  /\ (calls[i].at = "wait" /\ Reports(i, "failed")) => calls'[i].at = "rejected"
  /\ (calls[i].at = "wait" /\ Signalled(i) /\ ~Reports(i, "connected") /\ ~Reports(i, "failed"))
       => calls'[i].at = "wait"
  /\ (calls[i].at = "wait" /\ ~Signalled(i) /\ calls'[i].at # "wait")
       => (calls'[i].at = "rejected" /\ calls'[i].why = "timeout")
  /\ calls[i].at = "resolved" => calls'[i].at \in {"resolved", "done"}
  /\ calls[i].at = "rejected" => calls'[i].at \in {"rejected", "failed"}
  /\ calls[i].at \in {"done", "failed"} => calls'[i].at = calls[i].at
Thm_C30 ==
  /\ [][\A i \in Ids : WaitStep(i)]_vars
  /\ \A i \in Ids : (calls[i].at = "wait") ~> (calls[i].at \in {"resolved", "rejected"})
\* the wait outlasted a "disconnected" signal and was then resolved
Witness_C30 ==
  \E i \in Ids : /\ calls[i].at = "resolved"
                 /\ pcs[i] = [conn |-> "disconnected", ice |-> "connected"]

\* ---------------------------------------------------------------- C31
\* the squared length of the first n components of a returned vector, in
\* units of 1 / den2
RECURSIVE NumSqTo(_, _)
NumSqTo(out, k) == IF k = 0 THEN 0 ELSE NumSqTo(out, k - 1) + out[k].num * out[k].num

\* C31: the padding of a vector v narrower than the target width has the
\* target width, is zero from component n + 1 on, and its first n
\* components are v multiplied by one positive factor 1 / sqrt(d): of length
\* one when v is not the zero vector, all zero when it is
Thm_C31 ==
  padded.done /\ Len(padded.embedding) < targetDim =>
    LET v == padded.embedding
        out == padded.result
        n == Len(v)
    IN  /\ Len(out) = targetDim
        /\ \A i \in (n + 1)..targetDim : out[i].num = 0
        /\ \E d \in 1..(n * MaxComponent * MaxComponent + 1) :
             /\ \A i \in 1..n : out[i] = [num |-> v[i], den2 |-> d]
             /\ (\E i \in 1..n : v[i] # 0) => NumSqTo(out, n) = d
        /\ (\A i \in 1..n : v[i] = 0) => \A i \in 1..n : out[i].num = 0

Witness_C31 ==
  /\ padded.done /\ Len(padded.embedding) = MaxWidth
  /\ padded.embedding[1] = MaxComponent /\ padded.embedding[2] = -1
  /\ padded.result[1].den2 > 1

\* ---------------------------------------------------------------- C32
\* C32: the instructions of a session are those given when it was created:
\* no step of the orchestrator sends a session.update message
Orig_C32 == [][updateCount' = updateCount]_vars

\* ---------------------------------------------------------------- C33
\* the retry timer armed by the catch block of connect() fires in this step
CatchTimerFired ==
  \E k \in 1..Len(timers) :
    timers[k].kind = "catch" /\ timers' = RemoveAt(timers, k) /\ disconnects' = disconnects
\* no session, no attempt under way, and no transport that is still open
NoLiveConnection ==
  /\ ~isConnected /\ ~isConnecting /\ \A i \in Ids : ~InFlight(i)
  /\ pcRef = 0 \/ pcs[pcRef] = ClosedPc

\* C33: after a failure of connect() at any step, also one after the
\* transport was created, the retry timer that fires with no live connection
\* starts a fresh attempt, which begins with audio acquisition
Orig_C33 ==
  [][(CatchTimerFired /\ NoLiveConnection) =>
       /\ nextId' = nextId + 1
       /\ calls'[nextId].at = "acquire"]_vars

\* ---------------------------------------------------------------- C34
\* a reply was finished by the last event, and the event arriving now is the
\* first transcript event of the next reply, with a non-blank text
NextReplyBegins ==
  /\ SessionStep /\ lastEvt.kind = "done"
  /\ ReplyEventArrived /\ lastEvt'.kind \in {"delta", "full"}
  /\ Trim(lastEvt'.text) # <<>>

\* C34: the accumulated assistant text starts empty for every reply: after
\* the first transcript event of a reply it is that event's text, with
\* nothing of the reply before it, and the text is accepted however short it
\* is compared with the reply before
Orig_C34 ==
  [][NextReplyBegins => currentAssistantMessageRef' = Trim(lastEvt'.text)]_vars

\* ---------------------------------------------------------------- C36
\* a completion event arrives directly after a completion event: the backend
\* signals the end of the same reply with a second completion tag
CompletionRepeated ==
  /\ SessionStep /\ lastEvt.kind = "done"
  /\ ReplyEventArrived /\ lastEvt'.kind = "done"

\* C36: at most one assistant exchange is appended per reply: a further
\* completion event of the same reply leaves the exchange list as it is
Orig_C36 ==
  [][CompletionRepeated => conversationMessagesRef' = conversationMessagesRef]_vars

\* ---------------------------------------------------------------- C35
\* the attempt the mount started (always begun before disconnect() can be
\* called) takes a step in this step, after disconnect() has completed
ResumedAfterDisconnect ==
  /\ disconnects > 0 /\ disc = "idle" /\ SessionStep
  /\ InFlight(1) /\ calls'[1].at # calls[1].at

\* C35: an attempt of connect() that was suspended when disconnect() was
\* called installs no transport, does not mark the session connected and
\* arms no retry timer when it resumes
Orig_C35 ==
  [][ResumedAfterDisconnect =>
       /\ pcRef' = pcRef
       /\ isConnected' = isConnected
       /\ Len(timers') <= Len(timers)]_vars

\* ---------------------------------------------------------------- C37
\* one question/answer record for every user exchange that is immediately
\* followed by an assistant exchange, in the order of the list
RECURSIVE AdjacentPairs(_, _)
AdjacentPairs(messages, i) ==
  IF i >= Len(messages) THEN <<>>
  ELSE (IF messages[i].role = "user" /\ messages[i + 1].role = "assistant"
          THEN <<[question |-> messages[i].content, answer |-> messages[i + 1].content]>>
          ELSE <<>>) \o AdjacentPairs(messages, i + 1)

\* saveConversation() issues its request in this step
SaveIssued == saveCount' = saveCount + 1

\* C37: the paired records of a save request are exactly the user exchanges
\* immediately followed by an assistant exchange, wherever the pair sits in
\* the exchange list
Orig_C37 ==
  [][SaveIssued =>
       exchanges(conversationMessagesRef') = AdjacentPairs(conversationMessagesRef', 1)]_vars

\* ---------------------------------------------------------------- C38
\* C38: a context message obtained from a retrieval request is sent only on
\* the control channel that was open when the request was issued, and only
\* while that channel is still the session's open channel; no utterance has
\* more than one context message
Orig_C38 ==
  [][/\ \A m \in ctxSent' \ ctxSent : \A r \in fetches \ fetches' :
          r.id = m.id => m.dc = r.dc /\ dataChannelRef = r.dc /\ dcs[r.dc] = "open"
     /\ \A m1, m2 \in ctxSent' : m1.id = m2.id => m1 = m2]_vars

\* ---------------------------------------------------------------- C39
\* C39: the orchestrator is never both connecting and connected, and the
\* recording flag is set only while it is connected: whatever leaves the
\* Connected state clears it
Orig_C39 ==
  /\ ~(isConnecting /\ isConnected)
  /\ isRecording => isConnected

TypeOK ==
  /\ retryCountRef \in 0..maxRetries
  /\ pcRef \in 0..MaxAttempts /\ streamRef \in 0..MaxAttempts /\ dataChannelRef \in 0..MaxAttempts
  /\ greetCount \in 0..1
  /\ retrieval.at \in {"idle", "searching", "retrying", "returned", "threw"}
  /\ \A r \in Reqs : ensure[r].at \in {"idle", "checking", "creating", "created", "conflict",
                                         "returned", "threw"}
  /\ embedder \in 0..MaxCalls /\ loadPromise \in 0..MaxCalls /\ isLoading \in BOOLEAN
  /\ trackEnabled \in [Ids -> BOOLEAN] /\ muted \in BOOLEAN
  /\ isRecording \in BOOLEAN
====
